---- MODULE Spec2Model ----
(***************************************************************************)
(* Fraud-risk assessment core of fraud-iq-insights: the Business Rules     *)
(* Engine (rule catalog, rule evaluation, audit log), the Enterprise Fraud  *)
(* Analyzer that sequences rule evaluation, AI enhancement, cross-matching  *)
(* and case creation, and the Case Management store it writes to.           *)
(*                                                                         *)
(* Numbers that rule conditions compare are kept in tenths (25 is 2.5), so  *)
(* that the catalog's threshold 2.5 and the wage ratio stay integers.       *)
(* Scores and impacts are plain integers.  Oracle scores are in thousandths.*)
(***************************************************************************)
EXTENDS Integers, Sequences, FiniteSets, TLC

VARIABLES
    rules,           \* BusinessRulesEngine.rules
    auditLog,        \* BusinessRulesEngine.auditLog (rule id of each trigger)
    cases,           \* CaseManagementService.cases, in insertion order
    investigations,  \* CaseManagementService.investigations: caseId -> notes
    evidence,        \* CaseManagementService.evidence: caseId -> items
    auditTrail,      \* CaseManagementService.auditTrail
    alerts,          \* CaseManagementService.alerts
    last,            \* the call that ran last and what it returned
    nAdmin,          \* administrative calls made so far
    nCalls,          \* evaluation calls made so far
    probe,           \* inputs and results of the pure-function checks
    riskPatterns,        \* RealTimeRiskScoring.riskPatterns
    behavioralProfiles,  \* RealTimeRiskScoring.behavioralProfiles
    emergingThreats,     \* RealTimeRiskScoring.emergingThreats, in insertion order
    continuousLearning,  \* RealTimeRiskScoring.continuousLearning
    scoringLog,          \* the sessions scored so far: claimant and session
    knownSchemes,        \* PatternDetectionEngine.knownSchemes
    emergingPatterns,    \* PatternDetectionEngine.emergingPatterns, in insertion order
    alertHistory,        \* PatternDetectionEngine.alertHistory
    nTicks,              \* runs of the pattern-monitoring timer so far
    pending              \* createFraudCase calls in flight, each at an await

vars == <<rules, auditLog, cases, investigations, evidence, auditTrail,
          alerts, last, nAdmin, nCalls, probe, riskPatterns, behavioralProfiles,
          emergingThreats, continuousLearning, scoringLog, knownSchemes,
          emergingPatterns, alertHistory, nTicks, pending>>

engineVars == <<rules, auditLog>>
caseVars == <<cases, investigations, evidence, auditTrail, alerts>>
scorerVars == <<riskPatterns, behavioralProfiles, emergingThreats,
                continuousLearning, scoringLog>>
patternVars == <<knownSchemes, emergingPatterns, alertHistory, nTicks>>

----------------------------------------------------------------------------
(* Bounds of the model *)

MaxAdmin == 1
MaxCalls == 2
MaxEngineAdmin == 2
MaxEngineCalls == 1

----------------------------------------------------------------------------
(* JavaScript values as they reach a rule condition *)

Undef == [t |-> "undef", n |-> 0, s |-> ""]
Num(tenths) == [t |-> "num", n |-> tenths, s |-> ""]
Str(s) == [t |-> "str", n |-> 0, s |-> s]
Bool(b) == [t |-> "bool", n |-> IF b THEN 1 ELSE 0, s |-> ""]
List(l) == [t |-> "list", n |-> 0, s |-> "", l |-> l]

Digits == <<"0", "1", "2", "3", "4", "5", "6", "7", "8", "9">>

IsDigit(c) == \E d \in 1..10 : Digits[d] = c

DigitOf(c) == (CHOOSE d \in 1..10 : Digits[d] = c) - 1

RECURSIVE NatToStr(_)
NatToStr(k) == IF k < 10 THEN Digits[k + 1]
               ELSE NatToStr(k \div 10) \o Digits[(k % 10) + 1]

\* String(x) of a number held in tenths: 25 is "2.5", 30 is "3", -5 is "-0.5"
NumToStr(tenths) ==
    LET a == IF tenths < 0 THEN -tenths ELSE tenths
        body == IF a % 10 = 0 THEN NatToStr(a \div 10)
                ELSE NatToStr(a \div 10) \o "." \o Digits[(a % 10) + 1]
    IN IF tenths < 0 THEN "-" \o body ELSE body

ScalarToStr(v) ==
    CASE v.t = "undef" -> "undefined"
      [] v.t = "num" -> NumToStr(v.n)
      [] v.t = "bool" -> IF v.n = 1 THEN "true" ELSE "false"
      [] OTHER -> v.s

\* Array.prototype.toString: the elements joined by commas
RECURSIVE JoinList(_)
JoinList(l) ==
    IF l = <<>> THEN ""
    ELSE IF Len(l) = 1 THEN ScalarToStr(l[1])
    ELSE ScalarToStr(l[1]) \o "," \o JoinList(Tail(l))

\* String(x)
ToStr(v) == IF v.t = "list" THEN JoinList(v.l) ELSE ScalarToStr(v)

NaN == [nan |-> TRUE, n |-> 0]
Finite(tenths) == [nan |-> FALSE, n |-> tenths]

RECURSIVE DigitsValue(_)
DigitsValue(s) ==
    IF s = "" THEN 0
    ELSE 10 * DigitsValue(SubSeq(s, 1, Len(s) - 1)) + DigitOf(SubSeq(s, Len(s), Len(s)))

AllDigits(s) == \A i \in 1..Len(s) : IsDigit(SubSeq(s, i, i))

\* Number(s) of a string: "" is 0, digits with at most one fraction digit are
\* the number, anything else is NaN
StrToNumber(s) ==
    LET neg == Len(s) > 0 /\ SubSeq(s, 1, 1) = "-"
        u == IF neg THEN SubSeq(s, 2, Len(s)) ELSE s
        sign == IF neg THEN -1 ELSE 1
    IN IF s = "" THEN Finite(0)
       ELSE IF u # "" /\ AllDigits(u) THEN Finite(sign * 10 * DigitsValue(u))
       ELSE IF /\ Len(u) >= 3
               /\ SubSeq(u, Len(u) - 1, Len(u) - 1) = "."
               /\ AllDigits(SubSeq(u, 1, Len(u) - 2))
               /\ IsDigit(SubSeq(u, Len(u), Len(u)))
            THEN Finite(sign * (10 * DigitsValue(SubSeq(u, 1, Len(u) - 2))
                                + DigitOf(SubSeq(u, Len(u), Len(u)))))
       ELSE NaN

\* Number(x)
ToNumber(v) ==
    CASE v.t = "num" -> Finite(v.n)
      [] v.t = "bool" -> Finite(10 * v.n)
      [] v.t = "undef" -> NaN
      [] v.t = "str" -> StrToNumber(v.s)
      [] OTHER -> StrToNumber(JoinList(v.l))

\* x === y; two arrays are never the same object
StrictEquals(a, b) ==
    /\ a.t # "list"
    /\ a.t = b.t
    /\ a.n = b.n
    /\ a.s = b.s

\* String.prototype.includes
Includes(s, k) ==
    \E i \in 1..(Len(s) + 1) :
        /\ i + Len(k) - 1 <= Len(s)
        /\ SubSeq(s, i, i + Len(k) - 1) = k

\* Array.prototype.includes on a list of scalars
ListIncludes(l, v) == \E i \in 1..Len(l) : StrictEquals(v, l[i])

----------------------------------------------------------------------------
(* new RegExp(pattern).test(text), for patterns made of literal characters, *)
(* the wildcard ".", the anchors "^" and "$" and groups "(" ")".            *)

RECURSIVE ParenDepthOk(_, _)
\* the groups of the pattern are balanced: no ")" before its "(", none left open
ParenDepthOk(p, depth) ==
    IF p = "" THEN depth = 0
    ELSE LET c == SubSeq(p, 1, 1)
             rest == SubSeq(p, 2, Len(p))
         IN CASE c = "(" -> ParenDepthOk(rest, depth + 1)
              [] c = ")" -> depth > 0 /\ ParenDepthOk(rest, depth - 1)
              [] OTHER -> ParenDepthOk(rest, depth)

\* the RegExp constructor raises SyntaxError on a malformed pattern
RegExpThrows(p) == ~ParenDepthOk(p, 0)

RECURSIVE StripParens(_)
StripParens(p) ==
    IF p = "" THEN ""
    ELSE LET c == SubSeq(p, 1, 1)
             rest == StripParens(SubSeq(p, 2, Len(p)))
         IN IF c = "(" \/ c = ")" THEN rest ELSE c \o rest

RegExpTest(p, text) ==
    LET q == StripParens(p)
        fromStart == Len(q) > 0 /\ SubSeq(q, 1, 1) = "^"
        q1 == IF fromStart THEN SubSeq(q, 2, Len(q)) ELSE q
        toEnd == Len(q1) > 0 /\ SubSeq(q1, Len(q1), Len(q1)) = "$"
        core == IF toEnd THEN SubSeq(q1, 1, Len(q1) - 1) ELSE q1
    IN \E i \in 1..(Len(text) + 1) :
          /\ i + Len(core) - 1 <= Len(text)
          /\ fromStart => i = 1
          /\ toEnd => i + Len(core) - 1 = Len(text)
          /\ \A j \in 1..Len(core) :
                \/ SubSeq(core, j, j) = "."
                \/ SubSeq(core, j, j) = SubSeq(text, i + j - 1, i + j - 1)

\* the pattern new RegExp(value) compiles: undefined gives the empty pattern
PatternOf(value) == IF value.t = "undef" THEN "" ELSE ToStr(value)

----------------------------------------------------------------------------
(* BusinessRulesEngine: conditions *)

Operators == {"EQUALS", "NOT_EQUALS", "GREATER_THAN", "LESS_THAN", "CONTAINS",
              "REGEX", "IN_LIST", "NOT_IN_LIST"}

Cond(fieldName, operator, value) ==
    [fieldName |-> fieldName, operator |-> operator, value |-> value]

AsOutcome(b) == IF b THEN "true" ELSE "false"

\* x > y on what Number() gave: a comparison with NaN is false
NumberGreater(x, y) == ~x.nan /\ ~y.nan /\ x.n > y.n

\* new RegExp(pattern).test(text), or the constructor's SyntaxError
RegExpOutcome(pattern, text) ==
    IF RegExpThrows(pattern) THEN "throw" ELSE AsOutcome(RegExpTest(pattern, text))

\* evaluateCondition: "true", "false", or "throw" when the switch arm raises
evaluateCondition(condition, fieldValue) ==
    CASE condition.operator = "EQUALS" ->
            AsOutcome(StrictEquals(fieldValue, condition.value))
      [] condition.operator = "NOT_EQUALS" ->
            AsOutcome(~StrictEquals(fieldValue, condition.value))
      [] condition.operator = "GREATER_THAN" ->
            AsOutcome(NumberGreater(ToNumber(fieldValue), ToNumber(condition.value)))
      [] condition.operator = "LESS_THAN" ->
            AsOutcome(NumberGreater(ToNumber(condition.value), ToNumber(fieldValue)))
      [] condition.operator = "CONTAINS" ->
            AsOutcome(Includes(ToStr(fieldValue), ToStr(condition.value)))
      [] condition.operator = "REGEX" ->
            RegExpOutcome(PatternOf(condition.value), ToStr(fieldValue))
      [] condition.operator = "IN_LIST" ->
            AsOutcome(condition.value.t = "list"
                      /\ ListIncludes(condition.value.l, fieldValue))
      [] condition.operator = "NOT_IN_LIST" ->
            AsOutcome(condition.value.t = "list"
                      /\ ~ListIncludes(condition.value.l, fieldValue))
      [] OTHER -> "false"

\* getFieldValue: the context is keyed by the full dotted path; a path that
\* leads nowhere reads undefined
getFieldValue(fieldName, context) ==
    IF fieldName \in DOMAIN context THEN context[fieldName] ELSE Undef

RECURSIVE evaluateRuleConditions(_, _)
\* one step of conditions.every(...): a condition that is false ends it with
\* false, a condition that raises ends the whole evaluation
EveryFrom(outcome, rest, context) ==
    IF outcome = "true" THEN evaluateRuleConditions(rest, context) ELSE outcome

evaluateRuleConditions(conditions, context) ==
    IF conditions = <<>> THEN "true"
    ELSE EveryFrom(evaluateCondition(conditions[1],
                                     getFieldValue(conditions[1].fieldName, context)),
                   Tail(conditions), context)

----------------------------------------------------------------------------
(* BusinessRulesEngine: the rule catalog *)

Action(actionType, parameters) == [actionType |-> actionType, parameters |-> parameters]

Rule(ruleId, ruleName, category, conditions, actions, severity) ==
    [ruleId |-> ruleId, ruleName |-> ruleName, category |-> category,
     conditions |-> conditions, actions |-> actions, severity |-> severity,
     isActive |-> TRUE, lastModifiedDate |-> 0]

ID_001 ==
    Rule("ID_001", "Duplicate SSN Check", "IDENTITY",
         <<Cond("ssn_usage_count", "GREATER_THAN", Num(10))>>,
         <<Action("SET_FLAG", [flag |-> "DUPLICATE_SSN", severity |-> "HIGH"]),
           Action("ADD_SCORE", [score |-> 75])>>,
         "ERROR")

WAGE_001 ==
    Rule("WAGE_001", "Excessive Wage Claims", "WAGE",
         <<Cond("wage_to_industry_ratio", "GREATER_THAN", Num(25))>>,
         <<Action("ADD_SCORE", [score |-> 50]),
           Action("SET_FLAG", [flag |-> "EXCESSIVE_WAGES", severity |-> "MEDIUM"])>>,
         "WARNING")

EMP_001 ==
    Rule("EMP_001", "High-Risk Employer", "EMPLOYER",
         <<Cond("employer_risk_level", "EQUALS", Str("CRITICAL"))>>,
         <<Action("BLOCK_CLAIM", [reason |-> "HIGH_RISK_EMPLOYER"]),
           Action("CREATE_CASE", [caseType |-> "EMPLOYER_FRAUD", priority |-> "HIGH"])>>,
         "CRITICAL")

BEH_001 ==
    Rule("BEH_001", "Rapid Multiple Claims", "BEHAVIORAL",
         <<Cond("claims_last_30_days", "GREATER_THAN", Num(30))>>,
         <<Action("SET_FLAG", [flag |-> "RAPID_FILING", severity |-> "MEDIUM"]),
           Action("REQUIRE_VERIFICATION", [verificationType |-> "IDENTITY_ENHANCED"])>>,
         "WARNING")

XREF_001 ==
    Rule("XREF_001", "Deceased Person Check", "CROSS_REFERENCE",
         <<Cond("death_registry_match", "EQUALS", Bool(TRUE))>>,
         <<Action("BLOCK_CLAIM", [reason |-> "DECEASED_PERSON"]),
           Action("CREATE_CASE", [caseType |-> "IDENTITY_THEFT", priority |-> "CRITICAL"])>>,
         "CRITICAL")

\* initializeDefaultRules
DefaultRules == <<ID_001, WAGE_001, EMP_001, BEH_001, XREF_001>>

----------------------------------------------------------------------------
(* BusinessRulesEngine: evaluation *)

calculateImpactScore(severity) ==
    CASE severity = "CRITICAL" -> 100
      [] severity = "ERROR" -> 75
      [] severity = "WARNING" -> 50
      [] severity = "INFO" -> 25
      [] OTHER -> 0

BREdetermineRiskLevel(score, shouldBlock) ==
    IF shouldBlock \/ score >= 200 THEN "CRITICAL"
    ELSE IF score >= 100 THEN "HIGH"
    ELSE IF score >= 50 THEN "MEDIUM"
    ELSE "LOW"

\* the derived facts evaluateRules adds; the three lookups are mocked draws
DerivedFacts(in) ==
    [ssn_usage_count |-> Num(10 * in.ssnUsageCount),
     wage_to_industry_ratio |-> Num((in.claim.weeklyBenefitAmount * 52 * 10) \div 50000),
     employer_risk_level |-> Str(IF in.employer = "none" THEN "LOW" ELSE in.employer),
     claims_last_30_days |-> Num(10 * in.claimsLast30Days),
     death_registry_match |-> Bool(in.deathRegistryMatch)]

\* { ...contextData, claim, claimant, employer, <derived> }: later keys win
EvaluationContext(in) ==
    LET derived == DerivedFacts(in)
        own == ("claim.claimId" :> Str(in.claim.claimId))
               @@ ("claim.weeklyBenefitAmount" :> Num(10 * in.claim.weeklyBenefitAmount))
               @@ ("claimant.claimantId" :> Str(in.claimant.claimantId))
        keys == DOMAIN in.contextData \cup DOMAIN own \cup DOMAIN derived
    IN [k \in keys |->
          IF k \in DOMAIN derived THEN derived[k]
          ELSE IF k \in DOMAIN own THEN own[k]
          ELSE in.contextData[k]]

\* ExecuteAction without the ADD_SCORE arm: the score is never raised
ExecuteActionNoScore(a, acc) ==
    CASE a.actionType = "BLOCK_CLAIM" ->
            [acc EXCEPT !.shouldBlock = TRUE,
                        !.actionsTaken = Append(@, a.actionType)]
      [] a.actionType \in {"CREATE_CASE", "REQUIRE_VERIFICATION"} ->
            [acc EXCEPT !.requiresInvestigation = TRUE,
                        !.actionsTaken = Append(@, a.actionType)]
      [] OTHER -> [acc EXCEPT !.actionsTaken = Append(@, a.actionType)]

\* what one action of a triggered rule does to the running totals
ExecuteAction(a, acc) ==
    CASE a.actionType = "ADD_SCORE" ->
            [acc EXCEPT !.totalRiskScore =
                            @ + (IF "score" \in DOMAIN a.parameters
                                 THEN a.parameters.score ELSE 0),
                        !.actionsTaken = Append(@, a.actionType)]
      [] a.actionType = "BLOCK_CLAIM" ->
            [acc EXCEPT !.shouldBlock = TRUE,
                        !.actionsTaken = Append(@, a.actionType)]
      [] a.actionType \in {"CREATE_CASE", "REQUIRE_VERIFICATION"} ->
            [acc EXCEPT !.requiresInvestigation = TRUE,
                        !.actionsTaken = Append(@, a.actionType)]
      [] OTHER -> [acc EXCEPT !.actionsTaken = Append(@, a.actionType)]

RECURSIVE ExecuteActions(_, _)
\* the loop over rule.actions of a triggered rule
ExecuteActions(actions, acc) ==
    IF actions = <<>> THEN acc
    ELSE ExecuteActions(Tail(actions), ExecuteAction(actions[1], acc))

RiskFactor(factorId, factorName, category, impact) ==
    [factorId |-> factorId, factorName |-> factorName, category |-> category,
     impact |-> impact]

\* a BusinessRuleTrigger, as pushed on the audit log
Trigger(rule, claimId, actionsTaken) ==
    [ruleId |-> rule.ruleId, claimId |-> claimId, severity |-> rule.severity,
     actionsTaken |-> actionsTaken]

NoTrigger ==
    [totalRiskScore |-> 0, shouldBlock |-> FALSE, requiresInvestigation |-> FALSE,
     riskFactors |-> <<>>, triggered |-> <<>>, actionsTaken |-> <<>>, threw |-> FALSE]

\* PushTrigger without this.auditLog.push(trigger)
PushTriggerUnlogged(rule, claimId, ran) ==
    [ran EXCEPT
       !.riskFactors =
           Append(@, RiskFactor(rule.ruleId, rule.ruleName, rule.category,
                                calculateImpactScore(rule.severity)))]

\* the risk factor and the audit entry of a triggered rule, after its actions ran
PushTrigger(rule, claimId, ran) ==
    [ran EXCEPT
       !.riskFactors =
           Append(@, RiskFactor(rule.ruleId, rule.ruleName, rule.category,
                                calculateImpactScore(rule.severity))),
       !.triggered = Append(@, Trigger(rule, claimId, ran.actionsTaken))]

\* the body of the loop for one rule, given what its conditions came to
OnRule(rule, isTriggered, claimId, acc) ==
    IF isTriggered = "throw" THEN [acc EXCEPT !.threw = TRUE]
    ELSE IF isTriggered = "false" THEN acc
    ELSE PushTrigger(rule, claimId,
                     ExecuteActions(rule.actions, [acc EXCEPT !.actionsTaken = <<>>]))

RECURSIVE EvaluateEach(_, _, _, _)
\* the loop over the active rules, in definition order; a raise ends it
EvaluateEach(rs, context, claimId, acc) ==
    IF rs = <<>> \/ acc.threw THEN acc
    ELSE EvaluateEach(Tail(rs), context, claimId,
                      OnRule(rs[1], evaluateRuleConditions(rs[1].conditions, context),
                             claimId, acc))

\* this.rules.filter(r => r.isActive)
ActiveRules(rs) == SelectSeq(rs, LAMBDA r : r.isActive)

Assessment(in, score, level, factors, investigate, autoApprove, version) ==
    [claimId |-> in.claim.claimId, claimantId |-> in.claimant.claimantId,
     overallRiskScore |-> score, riskLevel |-> level, riskFactors |-> factors,
     requiresInvestigation |-> investigate, autoApprovalEligible |-> autoApprove,
     modelVersion |-> version]

\* what evaluateRules returns after the loop
BuildAssessment(in, run, riskLevel) ==
    Assessment(in, run.totalRiskScore, riskLevel, run.riskFactors,
               run.requiresInvestigation, ~run.shouldBlock /\ riskLevel = "LOW",
               "BRE_v2.1")

AfterLoop(in, run) ==
    [threw |-> run.threw,
     triggered |-> run.triggered,
     shouldBlock |-> run.shouldBlock,
     assessment |->
         BuildAssessment(in, run,
                         BREdetermineRiskLevel(run.totalRiskScore, run.shouldBlock))]

\* evaluateRules on the catalog rs: what it appends to the audit log, whether it
\* raised, and the assessment it returns when it did not
evaluateRules(rs, in) ==
    AfterLoop(in, EvaluateEach(ActiveRules(rs), EvaluationContext(in),
                               in.claim.claimId, NoTrigger))

----------------------------------------------------------------------------
(* BusinessRulesEngine: administration *)

\* findIndex: the first rule with the id, 0 when there is none
FindIndex(rs, ruleId) ==
    IF \E i \in 1..Len(rs) : rs[i].ruleId = ruleId
    THEN CHOOSE i \in 1..Len(rs) :
            /\ rs[i].ruleId = ruleId
            /\ \A j \in 1..(i - 1) : rs[j].ruleId # ruleId
    ELSE 0

\* { ...rule, ...updates, lastModifiedDate }
Merge(rule, updates, now) ==
    [k \in DOMAIN rule |->
        IF k = "lastModifiedDate" THEN now
        ELSE IF k \in DOMAIN updates THEN updates[k]
        ELSE rule[k]]

addRule(rs, rule) == Append(rs, rule)

\* UpdateAt as a hard delete: the rule found is spliced out of the catalog
UpdateAtRemoving(rs, index, updates, now) ==
    IF index # 0
    THEN [rules |-> SubSeq(rs, 1, index - 1) \o SubSeq(rs, index + 1, Len(rs)),
          returned |-> TRUE]
    ELSE [rules |-> rs, returned |-> FALSE]

\* the branch of updateRule on what findIndex gave (0 stands for -1)
UpdateAt(rs, index, updates, now) ==
    IF index # 0
    THEN [rules |-> [rs EXCEPT ![index] = Merge(rs[index], updates, now)],
          returned |-> TRUE]
    ELSE [rules |-> rs, returned |-> FALSE]

updateRule(rs, ruleId, updates, now) ==
    UpdateAt(rs, FindIndex(rs, ruleId), updates, now)

deactivateRule(rs, ruleId, now) == updateRule(rs, ruleId, [isActive |-> FALSE], now)

----------------------------------------------------------------------------
(* CaseManagementService *)

Store(cs, inv, ev, trail, al) ==
    [cases |-> cs, investigations |-> inv, evidence |-> ev, auditTrail |-> trail,
     alerts |-> al]

\* Map.set
MapSet(m, key, value) ==
    [k \in DOMAIN m \cup {key} |-> IF k = key THEN value ELSE m[k]]

\* Map.get(key) || []
MapGetOrEmpty(m, key) == IF key \in DOMAIN m THEN m[key] ELSE <<>>

CaseIndex(cs, caseId) ==
    IF \E i \in 1..Len(cs) : cs[i].caseId = caseId
    THEN CHOOSE i \in 1..Len(cs) : cs[i].caseId = caseId
    ELSE 0

Note(caseId, investigatorId, noteType) ==
    [caseId |-> caseId, investigatorId |-> investigatorId, noteType |-> noteType,
     isConfidential |-> FALSE]

\* the note goes to the investigations map, and to the case when there is one
PushNote(cm, caseId, note, i) ==
    [cm EXCEPT
       !.investigations = MapSet(@, caseId, Append(MapGetOrEmpty(@, caseId), note)),
       !.cases = IF i = 0 THEN @
                 ELSE [@ EXCEPT ![i].investigationNotes = Append(@, note)]]

addInvestigationNote(cm, caseId, investigatorId, noteType) ==
    PushNote(cm, caseId, Note(caseId, investigatorId, noteType),
             CaseIndex(cm.cases, caseId))

\* riskFactors.some(f => f.factorName.includes(w1) || f.factorName.includes(w2))
SomeFactorNamed(riskFactors, words) ==
    \E i \in 1..Len(riskFactors) :
        \E w \in words : Includes(riskFactors[i].factorName, w)

\* determineCaseType with the Employer test made before the Wage test
determineCaseTypeEmployerFirst(riskFactors) ==
    IF SomeFactorNamed(riskFactors, {"Deceased", "Identity"}) THEN "IDENTITY_THEFT"
    ELSE IF SomeFactorNamed(riskFactors, {"Employer"}) THEN "EMPLOYER_FRAUD"
    ELSE IF SomeFactorNamed(riskFactors, {"Wage", "Employment"}) THEN "WAGE_FALSIFICATION"
    ELSE IF SomeFactorNamed(riskFactors, {"Multiple", "Pattern"}) THEN "ORGANIZED_FRAUD"
    ELSE "ELIGIBILITY_FRAUD"

determineCaseType(riskFactors) ==
    IF SomeFactorNamed(riskFactors, {"Deceased", "Identity"}) THEN "IDENTITY_THEFT"
    ELSE IF SomeFactorNamed(riskFactors, {"Wage", "Employment"}) THEN "WAGE_FALSIFICATION"
    ELSE IF SomeFactorNamed(riskFactors, {"Employer"}) THEN "EMPLOYER_FRAUD"
    ELSE IF SomeFactorNamed(riskFactors, {"Multiple", "Pattern"}) THEN "ORGANIZED_FRAUD"
    ELSE "ELIGIBILITY_FRAUD"

determinePriority(riskLevel) ==
    CASE riskLevel = "CRITICAL" -> "CRITICAL"
      [] riskLevel = "HIGH" -> "HIGH"
      [] riskLevel = "MEDIUM" -> "MEDIUM"
      [] OTHER -> "LOW"

calculatePotentialLoss(claim) == claim.weeklyBenefitAmount * 26

\* the store, with the id that Date.now() and Math.random() give the next case
Drawing(cm, caseId) ==
    [cases |-> cm.cases, investigations |-> cm.investigations,
     evidence |-> cm.evidence, auditTrail |-> cm.auditTrail, alerts |-> cm.alerts,
     idDraw |-> caseId]

\* `CASE_${Date.now()}_${Math.random()...}`: a draw, which nothing compares
\* with the ids in use
NewCaseId(cm) == cm.idDraw

\* this.cases.set(caseId, fraudCase): a key in use keeps its place in the map
\* and takes the new value
CasesSet(cs, fraudCase) ==
    IF CaseIndex(cs, fraudCase.caseId) = 0 THEN Append(cs, fraudCase)
    ELSE [cs EXCEPT ![CaseIndex(cs, fraudCase.caseId)] = fraudCase]

createSystemAlert(cm, alertType, severity, entityId, triggeredBy) ==
    [cm EXCEPT !.alerts =
        Append(@, [alertType |-> alertType, severity |-> severity,
                   entityType |-> "CASE", entityId |-> entityId,
                   triggeredBy |-> triggeredBy, status |-> "OPEN"])]

addAuditEntry(cm, entry) == [cm EXCEPT !.auditTrail = Append(@, entry)]

\* the FraudCase object createFraudCase builds
NewFraudCase(caseId, riskAssessment, claim, claimant) ==
    [caseId |-> caseId,
     caseType |-> determineCaseType(riskAssessment.riskFactors),
     priority |-> determinePriority(riskAssessment.riskLevel),
     status |-> "OPEN",
     claimantId |-> claimant.claimantId,
     relatedClaimIds |-> <<claim.claimId>>,
     fraudScore |-> riskAssessment.overallRiskScore,
     potentialLoss |-> calculatePotentialLoss(claim),
     closureDate |-> 0,
     closureReason |-> "undefined",
     investigationNotes |-> <<>>,
     evidenceItems |-> <<>>]

\* cases.set, investigations.set, evidence.set
StoreCase(cm, fraudCase) ==
    [cm EXCEPT !.cases = CasesSet(@, fraudCase),
               !.investigations = MapSet(@, fraudCase.caseId, <<>>),
               !.evidence = MapSet(@, fraudCase.caseId, <<>>)]

CreationAudit(caseId, initiatedBy) ==
    [entityType |-> "CASE", entityId |-> caseId, action |-> "CREATE",
     userId |-> initiatedBy, oldStatus |-> "none", newStatus |-> "OPEN",
     systemGenerated |-> TRUE]

\* the alert createFraudCase raises for a HIGH or CRITICAL priority
AlertIfUrgent(cm, priority, caseId, initiatedBy) ==
    IF priority \in {"HIGH", "CRITICAL"}
    THEN createSystemAlert(cm, "FRAUD_THRESHOLD",
                           IF priority = "CRITICAL" THEN "CRITICAL" ELSE "HIGH",
                           caseId, initiatedBy)
    ELSE cm

\* the steps of createFraudCase after the case object is built
RegisterCase(cm, fraudCase, initiatedBy) ==
    AlertIfUrgent(
        addAuditEntry(
            addInvestigationNote(StoreCase(cm, fraudCase), fraudCase.caseId,
                                 "SYSTEM", "GENERAL"),
            CreationAudit(fraudCase.caseId, initiatedBy)),
        fraudCase.priority, fraudCase.caseId, initiatedBy)

createFraudCase(cm, riskAssessment, claim, claimant, initiatedBy) ==
    RegisterCase(cm, NewFraudCase(NewCaseId(cm), riskAssessment, claim, claimant),
                 initiatedBy)

\* the case at index i after the assignments of updateCaseStatus; a time of 0
\* is no closureDate
WithStatus(fraudCase, newStatus, reason, now) ==
    IF newStatus = "CLOSED"
    THEN [fraudCase EXCEPT !.status = newStatus, !.closureDate = now,
                           !.closureReason = reason]
    ELSE [fraudCase EXCEPT !.status = newStatus]

StatusAudit(caseId, updatedBy, oldStatus, newStatus) ==
    [entityType |-> "CASE", entityId |-> caseId, action |-> "UPDATE",
     userId |-> updatedBy, oldStatus |-> oldStatus, newStatus |-> newStatus,
     systemGenerated |-> FALSE]

\* updateCaseStatus refusing to move a case that is CLOSED
UpdateStatusAtUnlessClosed(cm, i, caseId, newStatus, updatedBy, reason, now) ==
    IF i = 0 \/ cm.cases[i].status = "CLOSED" THEN [store |-> cm, returned |-> FALSE]
    ELSE [store |->
              addAuditEntry(
                  addInvestigationNote(
                      [cm EXCEPT !.cases[i] = WithStatus(@, newStatus, reason, now)],
                      caseId, updatedBy, "DECISION"),
                  StatusAudit(caseId, updatedBy, cm.cases[i].status, newStatus)),
          returned |-> TRUE]

\* updateCaseStatus on the case found at index i (0 when cases.get gave none)
UpdateStatusAt(cm, i, caseId, newStatus, updatedBy, reason, now) ==
    IF i = 0 THEN [store |-> cm, returned |-> FALSE]
    ELSE [store |->
              addAuditEntry(
                  addInvestigationNote(
                      [cm EXCEPT !.cases[i] = WithStatus(@, newStatus, reason, now)],
                      caseId, updatedBy, "DECISION"),
                  StatusAudit(caseId, updatedBy, cm.cases[i].status, newStatus)),
          returned |-> TRUE]

updateCaseStatus(cm, caseId, newStatus, updatedBy, reason, now) ==
    UpdateStatusAt(cm, CaseIndex(cm.cases, caseId), caseId, newStatus, updatedBy,
                   reason, now)

\* the EvidenceItem addEvidence builds, with its one custody record
EvidenceItem(caseId, evidenceType, collectedBy, now) ==
    [caseId |-> caseId, evidenceType |-> evidenceType, collectedBy |-> collectedBy,
     collectedDate |-> now,
     chainOfCustody |->
         <<[custodian |-> collectedBy, transferDate |-> now,
            transferReason |-> "Initial collection", digitallySigned |-> TRUE]>>]

\* the item goes to the evidence map, and to the case when there is one
PushEvidence(cm, caseId, item, i) ==
    [cm EXCEPT
       !.evidence = MapSet(@, caseId, Append(MapGetOrEmpty(@, caseId), item)),
       !.cases = IF i = 0 THEN @
                 ELSE [@ EXCEPT ![i].evidenceItems = Append(@, item)]]

addEvidence(cm, caseId, evidenceType, collectedBy, now) ==
    addInvestigationNote(
        PushEvidence(cm, caseId, EvidenceItem(caseId, evidenceType, collectedBy, now),
                     CaseIndex(cm.cases, caseId)),
        caseId, collectedBy, "EVIDENCE")

----------------------------------------------------------------------------
(* EnterpriseFraudAnalyzer *)

Min(a, b) == IF a < b THEN a ELSE b

\* RealTimeRiskScoring.determineRiskLevel
RTdetermineRiskLevel(score) ==
    IF score >= 200 THEN "CRITICAL"
    ELSE IF score >= 100 THEN "HIGH"
    ELSE IF score >= 50 THEN "MEDIUM"
    ELSE "LOW"

\* EFAdetermineRiskLevel with the labels of the two middle bands exchanged
EFAdetermineRiskLevelSwapped(score) ==
    IF score >= 200 THEN "CRITICAL"
    ELSE IF score >= 100 THEN "MEDIUM"
    ELSE IF score >= 50 THEN "HIGH"
    ELSE "LOW"

EFAdetermineRiskLevel(score) ==
    IF score >= 200 THEN "CRITICAL"
    ELSE IF score >= 100 THEN "HIGH"
    ELSE IF score >= 50 THEN "MEDIUM"
    ELSE "LOW"

\* getMockResponse for the fraud-detection model: the FRAUD score it draws
getMockResponse(draw) == draw

\* queryHuggingFace: the FRAUD score of the response, in thousandths (-1 when
\* the response has none); every failure of the request gives the mock's
queryHuggingFace(reply) ==
    IF reply.up THEN reply.score ELSE getMockResponse(reply.draw)

\* enhanceWithAI: the oracle's answer is the FRAUD score in thousandths, or -1
\* when there is none (no array, no FRAUD label, or a failed call, which the
\* method catches)
enhanceWithAI(oracle) ==
    IF oracle > 500
    THEN [additionalScore |-> oracle \div 10,
          additionalFactors |->
              <<RiskFactor("AI_TEXT_ANALYSIS", "AI Text Analysis - Fraud Indicators",
                           "AI_ANALYSIS", oracle \div 10)>>]
    ELSE [additionalScore |-> 0, additionalFactors |-> <<>>]

\* contextData?.justification_text, as a condition
HasJustificationText(in) ==
    /\ "justification_text" \in DOMAIN in.contextData
    /\ in.contextData["justification_text"].t = "str"
    /\ in.contextData["justification_text"].s # ""

\* createFraudCaseIfNeeded without its test of the risk level
createFraudCaseAlways(cm, riskAssessment, claim, claimant) ==
    createFraudCase(cm, riskAssessment, claim, claimant, "FRAUD_DETECTION_SYSTEM")

createFraudCaseIfNeeded(cm, riskAssessment, claim, claimant) ==
    IF riskAssessment.riskLevel \in {"HIGH", "CRITICAL"}
    THEN createFraudCase(cm, riskAssessment, claim, claimant, "FRAUD_DETECTION_SYSTEM")
    ELSE cm

\* FallbackAssessment that asks for no investigation
FallbackWithoutReview(in) ==
    Assessment(in, 0, "LOW",
               <<RiskFactor("SYSTEM_ERROR", "Analysis System Error", "TECHNICAL", 0)>>,
               FALSE, FALSE, "FALLBACK_v1.0")

FallbackAssessment(in) ==
    Assessment(in, 0, "LOW",
               <<RiskFactor("SYSTEM_ERROR", "Analysis System Error", "TECHNICAL", 0)>>,
               TRUE, FALSE, "FALLBACK_v1.0")

\* AddAI without Math.min(1000, ...)
AddAIUncapped(riskAssessment, aiEnhancement) ==
    [riskAssessment EXCEPT
       !.overallRiskScore = @ + aiEnhancement.additionalScore,
       !.riskFactors = @ \o aiEnhancement.additionalFactors]

\* Step 2: the oracle's contribution, capped at 1000
AddAI(riskAssessment, aiEnhancement) ==
    [riskAssessment EXCEPT
       !.overallRiskScore = Min(1000, @ + aiEnhancement.additionalScore),
       !.riskFactors = @ \o aiEnhancement.additionalFactors]

\* Step 3: the cross-match factor and its 25 points per match
AddCrossMatches(riskAssessment, matchCount) ==
    IF matchCount > 0
    THEN [riskAssessment EXCEPT
            !.riskFactors =
                Append(@, RiskFactor("CROSS_MATCH", "Cross-System Matches Found",
                                     "CROSS_REFERENCE", matchCount * 25)),
            !.overallRiskScore = @ + matchCount * 25]
    ELSE riskAssessment

\* FinishAnalysis without Step 5: the level stays the rule engine's
FinishAnalysisNoRecompute(cm, in, afterAI, riskAssessment) ==
    [fellBack |-> FALSE,
     afterAI |-> afterAI,
     store |-> IF riskAssessment.requiresInvestigation
               THEN createFraudCaseIfNeeded(cm, riskAssessment, in.claim, in.claimant)
               ELSE cm,
     assessment |-> riskAssessment]

\* Steps 4 and 5 and the return
FinishAnalysis(cm, in, afterAI, riskAssessment) ==
    [fellBack |-> FALSE,
     afterAI |-> afterAI,
     store |-> IF riskAssessment.requiresInvestigation
               THEN createFraudCaseIfNeeded(cm, riskAssessment, in.claim, in.claimant)
               ELSE cm,
     assessment |->
         [riskAssessment EXCEPT
            !.riskLevel = EFAdetermineRiskLevel(riskAssessment.overallRiskScore)]]

\* Steps 3 to 5, from the assessment Step 2 left
AfterStep2(cm, in, riskAssessment, matchCount) ==
    FinishAnalysis(cm, in, riskAssessment.overallRiskScore,
                   AddCrossMatches(riskAssessment, matchCount))

\* analyzeClaimEnterprise, given what evaluateRules did (bre), the oracle's
\* answer and the number of cross-matches found
analyzeClaimEnterprise(cm, bre, in, oracle, matchCount) ==
    IF bre.threw
    THEN [fellBack |-> TRUE, afterAI |-> 0, store |-> cm,
          assessment |-> FallbackAssessment(in)]
    ELSE AfterStep2(cm, in,
                    IF HasJustificationText(in)
                    THEN AddAI(bre.assessment, enhanceWithAI(oracle))
                    ELSE bre.assessment,
                    matchCount)

----------------------------------------------------------------------------
(* Inputs of the calls *)

Input(claimId, weekly, employer, contextData, ssnUsageCount, claimsLast30Days, death) ==
    [claim |-> [claimId |-> claimId, weeklyBenefitAmount |-> weekly],
     claimant |-> [claimantId |-> "CLT_1"],
     employer |-> employer,
     contextData |-> contextData,
     ssnUsageCount |-> ssnUsageCount,
     claimsLast30Days |-> claimsLast30Days,
     deathRegistryMatch |-> death]

NoContext == <<>>
WithText == [justification_text |-> Str("laid off"), ip_address |-> Str("10.0.0.1")]

\* claims, with what the three mocked lookups drew for them
Inputs ==
    {Input("CLM_TEXT", 1250, "none", WithText, 1, 1, FALSE),
     Input("CLM_SSN", 1250, "LOW", WithText, 2, 1, FALSE),
     Input("CLM_SSN_WAGE", 2500, "LOW", WithText, 3, 1, FALSE),
     Input("CLM_EMPLOYER", 1250, "CRITICAL", NoContext, 1, 1, FALSE),
     Input("CLM_RAPID", 1250, "LOW", WithText, 1, 4, FALSE),
     Input("CLM_DECEASED", 2500, "LOW", WithText, 2, 1, TRUE)}

\* answers of the scoring oracle, in thousandths; -1 is no usable answer
OracleAnswers == {-1, 500, 995}

\* what Math.random() * 0.8 + 0.2 can come to, in thousandths
MockDraws == {200, 995}

\* what a request to the oracle meets: the service answering, or being out of
\* reach (a failed fetch, a response that is not ok) with the draw of the mock
OracleReplies ==
    [up : {TRUE}, score : OracleAnswers, draw : {0}]
        \cup [up : {FALSE}, score : {-1}, draw : MockDraws]

\* performCrossMatch draws each of its three match types independently
MatchCounts == 0..3

\* ids that Date.now() and Math.random() can give a case
CaseIds == {"CASE_A", "CASE_B"}

\* rules an administrator adds
ALWAYS_001 ==
    Rule("ALWAYS_001", "Manual Review Surcharge", "ELIGIBILITY", <<>>,
         <<Action("ADD_SCORE", [score |-> 950])>>, "INFO")

COMBO_001 ==
    Rule("COMBO_001", "Repeat Filer With Shared SSN", "BEHAVIORAL",
         <<Cond("ssn_usage_count", "GREATER_THAN", Num(10)),
           Cond("claims_last_30_days", "GREATER_THAN", Num(30))>>,
         <<Action("ADD_SCORE", [score |-> 30]),
           Action("SEND_ALERT", [alertType |-> "REPEAT_FILER"])>>, "WARNING")

REGEX_001 ==
    Rule("REGEX_001", "Internal Network Filing", "BEHAVIORAL",
         <<Cond("ssn_usage_count", "GREATER_THAN", Num(10)),
           Cond("ip_address", "REGEX", Str("^(10."))>>,
         <<Action("ADD_SCORE", [score |-> 10])>>, "INFO")

RulePool == {ALWAYS_001, COMBO_001, REGEX_001}

Updates == {[isActive |-> TRUE]}

RuleIdsOf(rs) == {rs[i].ruleId : i \in 1..Len(rs)}

AdminIds == RuleIdsOf(rules) \cup {"NO_SUCH_RULE"}

----------------------------------------------------------------------------
(* RealTimeRiskScoring                                                      *)
(*                                                                          *)
(* locationConsistency, unusualBehavior and syntheticScore are kept in      *)
(* hundredths.  A context holds what the pattern conditions derive from it: *)
(* the number of recent claims of the last 24 hours and the average         *)
(* distance, in miles, of the current location from the historical ones     *)
(* (-1 when there is no current or no historical location).  The field      *)
(* session of a BehavioralMetrics stands for the identity of the object.    *)

\* the session window of analyzeBehavioralPatterns, slice(-10)
HistoryWindow == 10

RiskPattern(id, weight, conditions, emergingThreat, frequency) ==
    [id |-> id, weight |-> weight, conditions |-> conditions,
     emergingThreat |-> emergingThreat, frequency |-> frequency]

\* initializeRiskPatterns
DefaultRiskPatterns ==
    <<RiskPattern("RAPID_MULTIPLE_CLAIMS", 85, <<"recentClaims">>, FALSE, 45),
      RiskPattern("SUSPICIOUS_DEVICE_PATTERN", 70, <<"unusualBehavior">>, TRUE, 23),
      RiskPattern("SYNTHETIC_IDENTITY_MARKERS", 95, <<"syntheticScore">>, TRUE, 12),
      RiskPattern("GEOGRAPHIC_ANOMALY", 60, <<"averageDistance">>, FALSE, 34)>>

Scorer(patterns, profiles, threats, learning) ==
    [riskPatterns |-> patterns, behavioralProfiles |-> profiles,
     emergingThreats |-> threats, continuousLearning |-> learning]

Abs(x) == IF x < 0 THEN -x ELSE x

\* array.slice(0, n): the oldest ones are the ones kept
FirstN(s, n) == IF Len(s) <= n THEN s ELSE SubSeq(s, 1, n)

\* array.slice(-n)
LastN(s, n) == IF Len(s) <= n THEN s ELSE SubSeq(s, Len(s) - n + 1, Len(s))

RECURSIVE SumTypingSpeed(_)
SumTypingSpeed(hist) ==
    IF hist = <<>> THEN 0 ELSE hist[1].typingSpeed + SumTypingSpeed(Tail(hist))

RECURSIVE SumSessionDuration(_)
SumSessionDuration(hist) ==
    IF hist = <<>> THEN 0 ELSE hist[1].sessionDuration + SumSessionDuration(Tail(hist))

\* Math.abs(current - avg) / avg > tenths / 10, where avg is sum / n; with a
\* sum of 0 the quotient is NaN and the comparison false
DeviatesBy(current, sum, n, tenths) ==
    sum > 0 /\ 10 * Abs(n * current - sum) > tenths * sum

\* the score analyzeBehavioralPatterns computes from the history, which
\* already holds the current session
BehavioralAnomalyScore(hist, currentMetrics) ==
    (IF DeviatesBy(currentMetrics.typingSpeed, SumTypingSpeed(hist), Len(hist), 5)
     THEN 25 ELSE 0)
    + (IF DeviatesBy(currentMetrics.sessionDuration, SumSessionDuration(hist),
                     Len(hist), 7)
       THEN 20 ELSE 0)
    + (IF Cardinality({hist[i].deviceFingerprint : i \in 1..Len(hist)}) > 3
       THEN 30 ELSE 0)
    + (IF currentMetrics.locationConsistency < 30 THEN 35 ELSE 0)

\* analyzeBehavioralPatterns once the current session is pushed on the history
RecordSession(rt, claimantId, hist, currentMetrics) ==
    [scorer |-> [rt EXCEPT !.behavioralProfiles =
                     MapSet(@, claimantId, LastN(hist, HistoryWindow))],
     score |-> IF Len(hist) < 2 THEN 0
               ELSE BehavioralAnomalyScore(hist, currentMetrics)]

analyzeBehavioralPatterns(rt, claimantId, context) ==
    IF ~context.hasMetrics THEN [scorer |-> rt, score |-> 0]
    ELSE RecordSession(rt, claimantId,
                       Append(MapGetOrEmpty(rt.behavioralProfiles, claimantId),
                              context.behavioralMetrics),
                       context.behavioralMetrics)

\* the conditions of the patterns of the table, by name
ConditionHolds(condition, context) ==
    CASE condition = "recentClaims" -> context.recentClaims > 2
      [] condition = "unusualBehavior" -> context.unusualBehavior > 70
      [] condition = "syntheticScore" -> context.syntheticScore > 80
      [] condition = "averageDistance" -> context.averageDistance > 500
      [] OTHER -> FALSE

\* pattern.conditions.every(...): a pattern without conditions always matches
PatternMatches(pattern, context) ==
    \A i \in 1..Len(pattern.conditions) :
        ConditionHolds(pattern.conditions[i], context)

\* Set.add on a set kept in insertion order
SetAdd(s, x) == IF \E i \in 1..Len(s) : s[i] = x THEN s ELSE Append(s, x)

\* detectPatterns from pattern i on, with the score and the threat set so far
RECURSIVE DetectPatternsFrom(_, _, _, _, _)
DetectPatternsFrom(patterns, i, context, score, threats) ==
    IF i > Len(patterns) THEN [score |-> score, threats |-> threats]
    ELSE IF ~PatternMatches(patterns[i], context)
    THEN DetectPatternsFrom(patterns, i + 1, context, score, threats)
    ELSE IF patterns[i].frequency > 20 /\ patterns[i].emergingThreat
    THEN DetectPatternsFrom(patterns, i + 1, context,
                            score + patterns[i].weight + 20,
                            SetAdd(threats, patterns[i].id))
    ELSE DetectPatternsFrom(patterns, i + 1, context, score + patterns[i].weight,
                            threats)

detectPatterns(rt, context) ==
    DetectPatternsFrom(rt.riskPatterns, 1, context, 0, rt.emergingThreats)

detectAnomalies(claim, claimant, context) ==
    (IF claim.createdHour < 6 \/ claim.createdHour > 22 THEN 15 ELSE 0)
    + (IF 10 * Abs(claim.weeklyBenefitAmount - 450) > 15 * 450 THEN 25 ELSE 0)
    + (IF claimant.riskScore > 70 THEN 30 ELSE 0)
    + (IF context.sharedAddressCount > 5 THEN 20 ELSE 0)
    + (IF context.sharedPhoneCount > 3 THEN 15 ELSE 0)

hasSimilarCharacteristics(claim, claimant, reference) ==
    /\ Abs(claim.weeklyBenefitAmount - reference.weeklyBenefitAmount) < 50
    /\ Abs(claimant.riskScore - reference.riskScore) < 20

RECURSIVE CountSimilar(_, _, _)
CountSimilar(claim, claimant, references) ==
    IF references = <<>> THEN 0
    ELSE (IF hasSimilarCharacteristics(claim, claimant, references[1]) THEN 1 ELSE 0)
         + CountSimilar(claim, claimant, Tail(references))

applyContinuousLearning(rt, claim, claimant, context) ==
    IF ~rt.continuousLearning THEN 0
    ELSE 10 * CountSimilar(claim, claimant, context.recentFraudConfirmations)
         - 5 * CountSimilar(claim, claimant, context.recentFalsePositives)

\* the factorIds of generateRiskFactors
generateRiskFactors(behavioralRisk, patternRisk, anomalyRisk, learningAdjustment) ==
    (IF behavioralRisk > 20 THEN <<"BEHAVIORAL_ANOMALY">> ELSE <<>>)
    \o (IF patternRisk > 30 THEN <<"PATTERN_MATCH">> ELSE <<>>)
    \o (IF anomalyRisk > 25 THEN <<"STATISTICAL_ANOMALY">> ELSE <<>>)
    \o (IF Abs(learningAdjustment) > 5 THEN <<"CONTINUOUS_LEARNING">> ELSE <<>>)

Max(a, b) == IF a > b THEN a ELSE b

\* the RiskAssessmentResult, from the four sub-scores and their sum clamped
RealTimeResult(claim, behavioralRisk, patternRisk, anomalyRisk, learningAdjustment, finalScore, threats) ==
    [claimId |-> claim.claimId,
     overallRiskScore |-> finalScore,
     riskLevel |-> RTdetermineRiskLevel(finalScore),
     riskFactors |-> generateRiskFactors(behavioralRisk, patternRisk, anomalyRisk,
                                         learningAdjustment),
     requiresInvestigation |-> finalScore >= 100,
     autoApprovalEligible |-> finalScore < 50,
     emergingThreats |-> threats,
     behavioralRisk |-> behavioralRisk]

\* Math.min(1000, baseScore): the upper clamp alone
finalScoreCappedOnly(baseScore) == Min(1000, baseScore)

\* const finalScore = Math.min(1000, Math.max(0, baseScore))
finalScoreOf(baseScore) == Min(1000, Max(0, baseScore))

\* scoreRiskRealTime after its first two steps
AfterPatterns(claim, claimant, context, behavioral, pattern) ==
    [scorer |-> [behavioral.scorer EXCEPT !.emergingThreats = pattern.threats],
     result |->
         RealTimeResult(
             claim, behavioral.score, pattern.score,
             detectAnomalies(claim, claimant, context),
             applyContinuousLearning(behavioral.scorer, claim, claimant, context),
             finalScoreOf(behavioral.score + pattern.score
                          + detectAnomalies(claim, claimant, context)
                          + applyContinuousLearning(behavioral.scorer, claim,
                                                    claimant, context)),
             pattern.threats)]

AfterBehavioral(claim, claimant, context, behavioral) ==
    AfterPatterns(claim, claimant, context, behavioral,
                  detectPatterns(behavioral.scorer, context))

scoreRiskRealTime(rt, claim, claimant, context) ==
    AfterBehavioral(claim, claimant, context,
                    analyzeBehavioralPatterns(rt, claimant.claimantId, context))

\* In updateEmergingThreats the step of a pattern is what
\* Math.floor(Math.random() * 3) gives, 0, 1 or 2; in adjustPatternWeights the
\* effectiveness is where Math.random() falls: above 0.8, below 0.3 or between.

\* one pattern in updateEmergingThreats
GrownPattern(pattern, step) ==
    [pattern EXCEPT !.frequency = @ + step,
                    !.emergingThreat = @ \/ pattern.frequency + step > 30]

\* updateEmergingThreats from pattern i on; steps[i] is the draw of pattern i
RECURSIVE UpdateThreatsFrom(_, _, _, _)
UpdateThreatsFrom(patterns, i, steps, threats) ==
    IF i > Len(patterns) THEN [riskPatterns |-> patterns, emergingThreats |-> threats]
    ELSE UpdateThreatsFrom(
             [patterns EXCEPT ![i] = GrownPattern(@, steps[i])], i + 1, steps,
             IF patterns[i].frequency + steps[i] > 30 /\ ~patterns[i].emergingThreat
             THEN SetAdd(threats, patterns[i].id) ELSE threats)

WithThreats(rt, updated) ==
    [rt EXCEPT !.riskPatterns = updated.riskPatterns,
               !.emergingThreats = updated.emergingThreats]

updateEmergingThreats(rt, steps) ==
    WithThreats(rt, UpdateThreatsFrom(rt.riskPatterns, 1, steps, rt.emergingThreats))

\* one pattern in adjustPatternWeights
AdjustedWeight(weight, effectiveness) ==
    CASE effectiveness = "above" -> Min(100, weight + 2)
      [] effectiveness = "below" -> Max(10, weight - 1)
      [] OTHER -> weight

adjustPatternWeights(rt, effectiveness) ==
    [rt EXCEPT !.riskPatterns =
        [i \in 1..Len(rt.riskPatterns) |->
            [rt.riskPatterns[i] EXCEPT
                !.weight = AdjustedWeight(@, effectiveness[i])]]]

\* addCustomPattern: the id comes from the clock, the frequency starts at 0
addCustomPattern(rt, pattern, id) ==
    [rt EXCEPT !.riskPatterns =
        Append(@, RiskPattern(id, pattern.weight, pattern.conditions,
                              pattern.emergingThreat, 0))]

toggleContinuousLearning(rt, enabled) ==
    [rt EXCEPT !.continuousLearning = enabled]

----------------------------------------------------------------------------
(* PatternDetectionEngine                                                   *)
(*                                                                          *)
(* Times are in seconds.  Success rates and suspicious scores are in        *)
(* thousandths, the confidence of a known-scheme alert in hundredths.  A    *)
(* detection rule is held by name.  The ipAddress and the employerId of a   *)
(* claim are JavaScript values, Undef when the claim object has no such     *)
(* property (the BenefitsClaim type declares neither).                      *)

BatchClaim(claimId, claimantId, ipAddress, employerId, createdDate) ==
    [claimId |-> claimId, claimantId |-> claimantId, ipAddress |-> ipAddress,
     employerId |-> employerId, createdDate |-> createdDate]

BatchClaimant(claimantId, ssn, riskScore, accountCreationDate, address) ==
    [claimantId |-> claimantId, ssn |-> ssn, riskScore |-> riskScore,
     accountCreationDate |-> accountCreationDate, address |-> address]

Scheme(id, severity, detectionRules, occurrenceCount, successRate) ==
    [id |-> id, severity |-> severity, detectionRules |-> detectionRules,
     occurrenceCount |-> occurrenceCount, successRate |-> successRate]

\* initializeKnownSchemes
DefaultSchemes ==
    <<Scheme("IDENTITY_RING_SCHEME", "CRITICAL", <<"ipGroup", "ssnGroup">>, 23, 870),
      Scheme("EMPLOYER_COLLUSION_SCHEME", "HIGH", <<"employerGroup">>, 15, 730),
      Scheme("SYNTHETIC_IDENTITY_SCHEME", "CRITICAL", <<"recentRiskyAccount">>, 8, 950),
      Scheme("CROSS_BORDER_SCHEME", "HIGH", <<"foreignIPs">>, 12, 680),
      Scheme("AUTOMATED_FILING_SCHEME", "MEDIUM", <<"regularIntervals">>, 6, 420)>>

Engine(schemes, emerging, history) ==
    [knownSchemes |-> schemes, emergingPatterns |-> emerging,
     alertHistory |-> history]

Day == 24 * 60 * 60

\* value || ''
OrEmpty(v) == IF v.t = "str" THEN v.s ELSE ""

\* the keys of groupBy(claims, 'ipAddress'), by claim: String(item[key])
IpKeys(claims) == [i \in 1..Len(claims) |-> ToStr(claims[i].ipAddress)]
EmployerKeys(claims) == [i \in 1..Len(claims) |-> ToStr(claims[i].employerId)]
SsnKeys(claimants) == [i \in 1..Len(claimants) |-> claimants[i].ssn]
AddressKeys(claimants) == [i \in 1..Len(claimants) |-> claimants[i].address]

\* the positions of the group of a key
GroupOf(keys, key) == {i \in 1..Len(keys) : keys[i] = key}

\* Object.values(groups).some(group => group.length > n)
SomeGroupOver(keys, n) ==
    \E i \in 1..Len(keys) : Cardinality(GroupOf(keys, keys[i])) > n

\* the keys of the groups, in the order groupBy meets them
RECURSIVE DistinctFrom(_, _, _)
DistinctFrom(keys, i, found) ==
    IF i > Len(keys) THEN found
    ELSE DistinctFrom(keys, i + 1, SetAdd(found, keys[i]))

GroupKeys(keys) == DistinctFrom(keys, 1, <<>>)

MaxOf(S) == CHOOSE x \in S : \A y \in S : y <= x
MinOf(S) == CHOOSE x \in S : \A y \in S : x <= y

\* isWithinTimeWindow of the createdDate of the claims at these positions
isWithinTimeWindow(claims, positions, days) ==
    /\ Cardinality(positions) >= 2
    /\ MaxOf({claims[i].createdDate : i \in positions})
         - MinOf({claims[i].createdDate : i \in positions}) <= days * Day

StartsWith(s, prefix) ==
    Len(s) >= Len(prefix) /\ SubSeq(s, 1, Len(prefix)) = prefix

isNonDomesticIP(ip) ==
    StartsWith(ip, "192.168.") \/ StartsWith(ip, "10.") \/ StartsWith(ip, "172.")

\* Array.prototype.sort by createdDate, which is stable: the claim goes behind
\* the ones of its date
RECURSIVE InsertByDate(_, _)
InsertByDate(sorted, claim) ==
    IF sorted = <<>> THEN <<claim>>
    ELSE IF sorted[Len(sorted)].createdDate <= claim.createdDate
    THEN Append(sorted, claim)
    ELSE Append(InsertByDate(SubSeq(sorted, 1, Len(sorted) - 1), claim),
                sorted[Len(sorted)])

RECURSIVE SortFrom(_, _, _)
SortFrom(claims, i, sorted) ==
    IF i > Len(claims) THEN sorted
    ELSE SortFrom(claims, i + 1, InsertByDate(sorted, claims[i]))

SortByDate(claims) == SortFrom(claims, 1, <<>>)

RECURSIVE SumOf(_)
SumOf(s) == IF s = <<>> THEN 0 ELSE s[1] + SumOf(Tail(s))

\* variance < avgInterval * 0.1, for n intervals in seconds that add to sum
\* and whose distances from the mean, times n and squared, add to spread: in
\* milliseconds the variance is 10^6 * spread / n^3 and the average
\* 10^3 * sum / n, so the test is 10^4 * spread < sum * n^2; with a sum of 0
\* both sides are 0 and the test fails
LowVariance(sum, spread, n) ==
    n > 0 /\ sum * n * n > 0 /\ spread <= (sum * n * n - 1) \div 10000

IntervalsSpread(diffs, sum) ==
    SumOf([i \in 1..Len(diffs) |->
              (Len(diffs) * diffs[i] - sum) * (Len(diffs) * diffs[i] - sum)])

\* the rule of AUTOMATED_FILING_SCHEME on the intervals of the sorted claims
RegularIntervals(diffs) ==
    /\ LowVariance(SumOf(diffs), IntervalsSpread(diffs, SumOf(diffs)), Len(diffs))
    /\ Len(diffs) > 10

TimeDiffs(sorted) ==
    [i \in 1..(Len(sorted) - 1) |-> sorted[i + 1].createdDate - sorted[i].createdDate]

\* what a detection rule returns
RuleResult(rule, claims, claimants, now) ==
    CASE rule = "ipGroup" -> SomeGroupOver(IpKeys(claims), 5)
      [] rule = "ssnGroup" -> SomeGroupOver(SsnKeys(claimants), 1)
      [] rule = "employerGroup" ->
            \E i \in 1..Len(claims) :
                /\ Cardinality(GroupOf(EmployerKeys(claims),
                                       EmployerKeys(claims)[i])) > 10
                /\ isWithinTimeWindow(claims,
                                      GroupOf(EmployerKeys(claims),
                                              EmployerKeys(claims)[i]), 30)
      [] rule = "recentRiskyAccount" ->
            \E i \in 1..Len(claimants) :
                /\ claimants[i].riskScore > 80
                /\ claimants[i].accountCreationDate > now - 30 * Day
      [] rule = "foreignIPs" ->
            Cardinality({i \in 1..Len(claims) :
                            isNonDomesticIP(OrEmpty(claims[i].ipAddress))}) > 3
      [] rule = "regularIntervals" ->
            Len(claims) > 0 /\ RegularIntervals(TimeDiffs(SortByDate(claims)))
      [] rule = "always" -> TRUE
      [] OTHER -> FALSE

\* the caller's claims array after the rule ran: the rule of
\* AUTOMATED_FILING_SCHEME sorts it in place
ClaimsAfterRule(rule, claims) ==
    IF rule = "regularIntervals" THEN SortByDate(claims) ELSE claims

\* scheme.detectionRules.map(rule => rule(claims, claimants))
RECURSIVE EvalRulesFrom(_, _, _, _, _, _)
EvalRulesFrom(detectionRules, i, claims, claimants, now, results) ==
    IF i > Len(detectionRules) THEN [results |-> results, claims |-> claims]
    ELSE EvalRulesFrom(detectionRules, i + 1,
                       ClaimsAfterRule(detectionRules[i], claims), claimants, now,
                       Append(results,
                              RuleResult(detectionRules[i], claims, claimants, now)))

ClaimIds(claims) == [i \in 1..Len(claims) |-> claims[i].claimId]

\* claims.filter(claim => keys.includes(claim[field] || '')).map(c => c.claimId)
RECURSIVE AffectedFrom(_, _, _, _)
AffectedFrom(claims, values, keys, i) ==
    IF i > Len(claims) THEN <<>>
    ELSE (IF \E k \in 1..Len(keys) : keys[k] = values[i]
          THEN <<claims[i].claimId>> ELSE <<>>)
         \o AffectedFrom(claims, values, keys, i + 1)

\* the keys whose group has more than n members, in the order of the groups
KeysOver(keys, n) ==
    SelectSeq(GroupKeys(keys), LAMBDA key : Cardinality(GroupOf(keys, key)) > n)

identifyAffectedClaims(scheme, claims) ==
    CASE scheme.id = "IDENTITY_RING_SCHEME" ->
            AffectedFrom(claims,
                         [i \in 1..Len(claims) |-> OrEmpty(claims[i].ipAddress)],
                         KeysOver(IpKeys(claims), 5), 1)
      [] scheme.id = "EMPLOYER_COLLUSION_SCHEME" ->
            AffectedFrom(claims,
                         [i \in 1..Len(claims) |-> OrEmpty(claims[i].employerId)],
                         KeysOver(EmployerKeys(claims), 10), 1)
      [] OTHER -> ClaimIds(SubSeq(claims, 1, Min(10, Len(claims))))

\* Math.round((successRate * 0.7 + rulesMatched / rules * 0.3) * 100) / 100,
\* where rulesMatched is the number of rules of the scheme
calculateDetectionConfidence(scheme) ==
    (7 * scheme.successRate + 3000 + 50) \div 100

PatternAlert(schemeId, severity, affectedClaims, confidence) ==
    [schemeId |-> schemeId, severity |-> severity,
     affectedClaims |-> affectedClaims, confidence |-> confidence]

AllTrue(results) == \A i \in 1..Len(results) : results[i]

\* detectScheme once the rules have run; claims is the array as they left it
SchemeDetection(scheme, results, claims) ==
    IF ~AllTrue(results)
    THEN [detected |-> FALSE, affectedClaims |-> <<>>, confidence |-> 0]
    ELSE [detected |-> TRUE,
          affectedClaims |-> identifyAffectedClaims(scheme, claims),
          confidence |-> calculateDetectionConfidence(scheme)]

\* the loop of detectEmergingSchemes over the catalog, from scheme i on
RECURSIVE DetectKnownFrom(_, _, _, _, _, _)
OnDetection(schemes, i, ran, detection, claimants, now, found) ==
    IF detection.detected
    THEN DetectKnownFrom([schemes EXCEPT ![i].occurrenceCount = @ + 1], i + 1,
                         ran.claims, claimants, now,
                         Append(found,
                                PatternAlert(schemes[i].id, schemes[i].severity,
                                             detection.affectedClaims,
                                             detection.confidence)))
    ELSE DetectKnownFrom(schemes, i + 1, ran.claims, claimants, now, found)

OnRulesRun(schemes, i, ran, claimants, now, found) ==
    OnDetection(schemes, i, ran, SchemeDetection(schemes[i], ran.results, ran.claims),
                claimants, now, found)

DetectKnownFrom(schemes, i, claims, claimants, now, found) ==
    IF i > Len(schemes)
    THEN [schemes |-> schemes, claims |-> claims, alerts |-> found]
    ELSE OnRulesRun(schemes, i,
                    EvalRulesFrom(schemes[i].detectionRules, 1, claims, claimants,
                                  now, <<>>),
                    claimants, now, found)

Cluster(members, suspiciousScore, description) ==
    [members |-> members, suspiciousScore |-> suspiciousScore,
     description |-> description]

\* the claim ids of the claims at the positions, in the order of the array
RECURSIVE IdsAt(_, _, _)
IdsAt(claims, positions, i) ==
    IF i > Len(claims) THEN <<>>
    ELSE (IF i \in positions THEN <<claims[i].claimId>> ELSE <<>>)
         \o IdsAt(claims, positions, i + 1)

\* IP address clustering: groups of 3 claims and more
RECURSIVE IpClustersFrom(_, _, _)
IpClustersFrom(claims, keys, k) ==
    IF k > Len(keys) THEN <<>>
    ELSE (IF Cardinality(GroupOf(IpKeys(claims), keys[k])) >= 3
          THEN <<Cluster(IdsAt(claims, GroupOf(IpKeys(claims), keys[k]), 1),
                         Min(1000, 100 * Cardinality(GroupOf(IpKeys(claims), keys[k]))),
                         "Multiple claims from IP address " \o keys[k])>>
          ELSE <<>>)
         \o IpClustersFrom(claims, keys, k + 1)

\* groupByTimeWindow over the sorted copy, from claim i on: the clusters
\* closed so far, the open cluster and the time of its first claim
RECURSIVE TimeWindowsFrom(_, _, _, _, _, _)
TimeWindowsFrom(sorted, i, windowLength, closed, current, clusterStart) ==
    IF i > Len(sorted)
    THEN (IF Len(current) > 1 THEN Append(closed, current) ELSE closed)
    ELSE IF current = <<>>
    THEN TimeWindowsFrom(sorted, i + 1, windowLength, closed, <<sorted[i].claimId>>,
                         sorted[i].createdDate)
    ELSE IF sorted[i].createdDate - clusterStart <= windowLength
    THEN TimeWindowsFrom(sorted, i + 1, windowLength, closed,
                         Append(current, sorted[i].claimId), clusterStart)
    ELSE TimeWindowsFrom(sorted, i + 1, windowLength,
                         IF Len(current) > 1 THEN Append(closed, current) ELSE closed,
                         <<sorted[i].claimId>>, sorted[i].createdDate)

groupByTimeWindow(claims, windowLength) ==
    TimeWindowsFrom(SortByDate(claims), 1, windowLength, <<>>, <<>>, 0)

\* Temporal clustering: windows of 5 claims and more
RECURSIVE TemporalClustersFrom(_, _)
TemporalClustersFrom(windows, k) ==
    IF k > Len(windows) THEN <<>>
    ELSE (IF Len(windows[k]) >= 5
          THEN <<Cluster(windows[k], Min(1000, 50 * Len(windows[k])),
                         NatToStr(Len(windows[k]))
                             \o " claims filed within a short time window")>>
          ELSE <<>>)
         \o TemporalClustersFrom(windows, k + 1)

\* the claims of the claimants at the positions
ClaimsOfClaimants(claims, claimants, positions) ==
    {i \in 1..Len(claims) :
        \E j \in positions : claimants[j].claimantId = claims[i].claimantId}

\* Geographic clustering: addresses of 4 claimants and more
RECURSIVE AddressClustersFrom(_, _, _, _)
AddressClustersFrom(claims, claimants, keys, k) ==
    IF k > Len(keys) THEN <<>>
    ELSE (IF Cardinality(GroupOf(AddressKeys(claimants), keys[k])) >= 4
          THEN <<Cluster(IdsAt(claims,
                               ClaimsOfClaimants(claims, claimants,
                                   GroupOf(AddressKeys(claimants), keys[k])), 1),
                         Min(1000,
                             125 * Cardinality(GroupOf(AddressKeys(claimants),
                                                       keys[k]))),
                         "Multiple claimants at same address: " \o keys[k])>>
          ELSE <<>>)
         \o AddressClustersFrom(claims, claimants, keys, k + 1)

performClusterAnalysis(claims, claimants) ==
    IpClustersFrom(claims, GroupKeys(IpKeys(claims)), 1)
    \o TemporalClustersFrom(groupByTimeWindow(claims, 3600), 1)
    \o AddressClustersFrom(claims, claimants, GroupKeys(AddressKeys(claimants)), 1)

\* the place of the record of a pattern id in the emerging map (0 when none)
PatternIndex(emerging, patternId) ==
    IF \E i \in 1..Len(emerging) : emerging[i].id = patternId
    THEN CHOOSE i \in 1..Len(emerging) : emerging[i].id = patternId
    ELSE 0

\* this.emergingPatterns.set(patternId, {cluster, firstDetected, observations: 1})
EmergingSet(emerging, patternId, cluster) ==
    IF PatternIndex(emerging, patternId) = 0
    THEN Append(emerging, [id |-> patternId, cluster |-> cluster, observations |-> 1])
    ELSE [emerging EXCEPT ![PatternIndex(emerging, patternId)] =
             [id |-> patternId, cluster |-> cluster, observations |-> 1]]

\* `EMERGING_${Date.now()}_${Math.random()...}` for the n-th pattern of a call:
\* a draw, which nothing compares with the ids in use
NewPatternId(idDraws, n) == idDraws[((n - 1) % Len(idDraws)) + 1]

\* the loop of detectNewPatterns over the clusters, from cluster k on, n
\* patterns having been stored by the call
RECURSIVE NewPatternsFrom(_, _, _, _, _, _)
NewPatternsFrom(clusters, k, idDraws, n, emerging, found) ==
    IF k > Len(clusters) THEN [emerging |-> emerging, alerts |-> found]
    ELSE IF clusters[k].suspiciousScore > 700 /\ Len(clusters[k].members) >= 5
    THEN NewPatternsFrom(clusters, k + 1, idDraws, n + 1,
                         EmergingSet(emerging, NewPatternId(idDraws, n + 1),
                                     clusters[k]),
                         Append(found,
                                PatternAlert(NewPatternId(idDraws, n + 1),
                                             IF clusters[k].suspiciousScore > 900
                                             THEN "HIGH" ELSE "MEDIUM",
                                             clusters[k].members,
                                             clusters[k].suspiciousScore \div 10)))
    ELSE NewPatternsFrom(clusters, k + 1, idDraws, n, emerging, found)

detectNewPatterns(emerging, claims, claimants, idDraws) ==
    NewPatternsFrom(performClusterAnalysis(claims, claimants), 1, idDraws, 0,
                    emerging, <<>>)

\* detectEmergingSchemes after the two detection passes; claims is the caller's
\* array as the call leaves it
CollectAlerts(pde, known, new) ==
    [engine |-> Engine(known.schemes, new.emerging,
                       pde.alertHistory \o known.alerts \o new.alerts),
     alerts |-> known.alerts \o new.alerts,
     claims |-> known.claims]

AfterKnownSchemes(pde, known, claimants, idDraws) ==
    CollectAlerts(pde, known,
                  detectNewPatterns(pde.emergingPatterns, known.claims, claimants,
                                    idDraws))

detectEmergingSchemes(pde, claims, claimants, now, idDraws) ==
    AfterKnownSchemes(pde,
                      DetectKnownFrom(pde.knownSchemes, 1, claims, claimants, now,
                                      <<>>),
                      claimants, idDraws)

\* updateSchemeStatistics: every scheme takes the adjustment drawn for it
updateSchemeStatistics(schemes, adjustments) ==
    [i \in 1..Len(schemes) |->
        [schemes[i] EXCEPT !.successRate =
            Max(100, Min(990, @ + adjustments[((i - 1) % Len(adjustments)) + 1]))]]

\* the scheme an emerging pattern is promoted to
PromotedScheme(pattern) ==
    Scheme(pattern.id,
           IF pattern.cluster.suspiciousScore > 900 THEN "HIGH" ELSE "MEDIUM",
           <<"always">>, pattern.observations, 500)

\* promoteEmergingPatterns promoting whatever has the score, at any count
RECURSIVE PromoteAtOnceFrom(_, _, _, _)
PromoteAtOnceFrom(entries, k, schemes, kept) ==
    IF k > Len(entries) THEN [knownSchemes |-> schemes, emergingPatterns |-> kept]
    ELSE IF entries[k].cluster.suspiciousScore > 800
    THEN PromoteAtOnceFrom(entries, k + 1,
                           Append(schemes,
                                  PromotedScheme([entries[k] EXCEPT
                                                     !.observations = @ + 1])),
                           kept)
    ELSE PromoteAtOnceFrom(entries, k + 1, schemes,
                           Append(kept, [entries[k] EXCEPT !.observations = @ + 1]))

\* the loop of promoteEmergingPatterns over the entries of the map, from entry
\* k on: the catalog so far and the records that stay
RECURSIVE PromoteFrom(_, _, _, _)
PromoteFrom(entries, k, schemes, kept) ==
    IF k > Len(entries) THEN [knownSchemes |-> schemes, emergingPatterns |-> kept]
    ELSE IF /\ entries[k].observations + 1 >= 5
            /\ entries[k].cluster.suspiciousScore > 800
    THEN PromoteFrom(entries, k + 1,
                     Append(schemes,
                            PromotedScheme([entries[k] EXCEPT !.observations = @ + 1])),
                     kept)
    ELSE PromoteFrom(entries, k + 1, schemes,
                     Append(kept, [entries[k] EXCEPT !.observations = @ + 1]))

promoteEmergingPatterns(schemes, emerging) == PromoteFrom(emerging, 1, schemes, <<>>)

WithHistory(promoted, history) ==
    Engine(promoted.knownSchemes, promoted.emergingPatterns, history)

\* the callback of setInterval in startPatternMonitoring
PatternMonitoringTick(pde, adjustments) ==
    WithHistory(promoteEmergingPatterns(
                    updateSchemeStatistics(pde.knownSchemes, adjustments),
                    pde.emergingPatterns),
                pde.alertHistory)

\* addCustomScheme
addCustomScheme(pde, scheme, customId) ==
    [pde EXCEPT !.knownSchemes =
        Append(@, Scheme(customId, scheme.severity, scheme.detectionRules, 0,
                         scheme.successRate))]

----------------------------------------------------------------------------
(* The state machine *)

NoProbe == [kind |-> "none"]

CaseStore == Store(cases, investigations, evidence, auditTrail, alerts)

\* the services as their constructors leave them
Constructed ==
    /\ rules = DefaultRules
    /\ auditLog = <<>>
    /\ cases = <<>>
    /\ investigations = <<>>
    /\ evidence = <<>>
    /\ auditTrail = <<>>
    /\ alerts = <<>>
    /\ last = [op |-> "init"]
    /\ nAdmin = 0
    /\ nCalls = 0
    /\ riskPatterns = DefaultRiskPatterns
    /\ behavioralProfiles = <<>>
    /\ emergingThreats = <<>>
    /\ continuousLearning = TRUE
    /\ scoringLog = <<>>
    /\ knownSchemes = DefaultSchemes
    /\ emergingPatterns = <<>>
    /\ alertHistory = <<>>
    /\ nTicks = 0
    /\ pending = <<>>

Init == Constructed /\ probe = NoProbe

AddRule(rule) ==
    /\ rules' = addRule(rules, rule)
    /\ nAdmin' = nAdmin + 1
    /\ last' = [op |-> "addRule", ruleId |-> rule.ruleId,
                returned |-> TRUE]
    /\ UNCHANGED <<auditLog, caseVars, nCalls, probe, scorerVars, patternVars, pending>>

UpdateRule(ruleId, updates) ==
    /\ \E r \in {updateRule(rules, ruleId, updates, nAdmin + 1)} :
          /\ rules' = r.rules
          /\ last' = [op |-> "updateRule", ruleId |-> ruleId,
                      returned |-> r.returned]
    /\ nAdmin' = nAdmin + 1
    /\ UNCHANGED <<auditLog, caseVars, nCalls, probe, scorerVars, patternVars, pending>>

DeactivateRule(ruleId) ==
    /\ \E r \in {deactivateRule(rules, ruleId, nAdmin + 1)} :
          /\ rules' = r.rules
          /\ last' = [op |-> "deactivateRule", ruleId |-> ruleId,
                      returned |-> r.returned]
    /\ nAdmin' = nAdmin + 1
    /\ UNCHANGED <<auditLog, caseVars, nCalls, probe, scorerVars, patternVars, pending>>

EvaluateRules(in) ==
    /\ \E r \in {evaluateRules(rules, in)} :
          /\ auditLog' = auditLog \o r.triggered
          /\ last' = [op |-> "evaluateRules", in |-> in, threw |-> r.threw,
                      logBefore |-> Len(auditLog), shouldBlock |-> r.shouldBlock,
                      assessment |-> r.assessment]
    /\ nCalls' = nCalls + 1
    /\ UNCHANGED <<rules, caseVars, nAdmin, probe, scorerVars, patternVars, pending>>

AnalyzeClaimEnterprise(in, reply, matchCount, caseId) ==
    /\ \E bre \in {evaluateRules(rules, in)} :
       \E r \in {analyzeClaimEnterprise(Drawing(CaseStore, caseId), bre, in,
                                        queryHuggingFace(reply), matchCount)} :
          /\ auditLog' = auditLog \o bre.triggered
          /\ cases' = r.store.cases
          /\ investigations' = r.store.investigations
          /\ evidence' = r.store.evidence
          /\ auditTrail' = r.store.auditTrail
          /\ alerts' = r.store.alerts
          /\ last' = [op |-> "analyzeClaimEnterprise", in |-> in, threw |-> FALSE,
                      logBefore |-> Len(auditLog), casesBefore |-> Len(cases),
                      trailBefore |-> Len(auditTrail),
                      shouldBlock |-> bre.shouldBlock, engineThrew |-> bre.threw,
                      bre |-> bre.assessment,
                      fellBack |-> r.fellBack, oracleUp |-> reply.up,
                      afterAI |-> r.afterAI,
                      matchCount |-> matchCount, assessment |-> r.assessment]
    /\ nCalls' = nCalls + 1
    /\ UNCHANGED <<rules, nAdmin, probe, scorerVars, patternVars, pending>>

\* administration of the rule catalog
Administer ==
    \/ \E rule \in RulePool : AddRule(rule)
    \/ \E ruleId \in AdminIds, updates \in Updates : UpdateRule(ruleId, updates)
    \/ \E ruleId \in AdminIds : DeactivateRule(ruleId)

Evaluate == \E in \in Inputs : EvaluateRules(in)

Analyze ==
    \E in \in Inputs, reply \in OracleReplies, matchCount \in MatchCounts,
       caseId \in CaseIds :
        AnalyzeClaimEnterprise(in, reply, matchCount, caseId)

\* the analyzer with its rule engine and case store
Next ==
    \/ nAdmin < MaxAdmin /\ Administer
    \/ nCalls < MaxCalls /\ Evaluate
    \/ nCalls < MaxCalls /\ Analyze

Spec == Init /\ [][Next]_vars

\* the analyzer alone, on the default catalog, with one more claim: a shared
\* SSN, excessive wages and rapid filing at once
MaxAnalyzerCalls == 2

AnalyzerInputs ==
    Inputs \cup {Input("CLM_SSN_WAGE_RAPID", 2500, "LOW", NoContext, 3, 4, FALSE)}

NextAnalyzer ==
    /\ nCalls < MaxAnalyzerCalls
    /\ \E in \in AnalyzerInputs, reply \in OracleReplies, matchCount \in MatchCounts,
          caseId \in CaseIds :
          AnalyzeClaimEnterprise(in, reply, matchCount, caseId)

SpecAnalyzer == Init /\ [][NextAnalyzer]_vars

\* the rule engine on its own, under longer runs of administration
NextEngine ==
    \/ nAdmin < MaxEngineAdmin /\ Administer
    \/ nCalls < MaxEngineCalls /\ Evaluate

SpecEngine == Init /\ [][NextEngine]_vars

----------------------------------------------------------------------------
(* CaseManagementService on its own *)

MaxCaseOps == 3

Statuses == {"OPEN", "UNDER_INVESTIGATION", "PENDING_REVIEW", "CLOSED", "REFERRED"}

\* the optional reason of updateCaseStatus
Reasons == {"undefined", "No fraud found"}

\* assessments createFraudCase is called with, one of each risk level
CaseAssessments ==
    {[riskLevel |-> level, overallRiskScore |-> 120,
      riskFactors |-> <<RiskFactor("ID_001", "Duplicate SSN Check", "IDENTITY", 75)>>] :
        level \in {"LOW", "MEDIUM", "HIGH", "CRITICAL"}}

TheClaim == [claimId |-> "CLM_1", weeklyBenefitAmount |-> 1250]
TheClaimant == [claimantId |-> "CLT_1"]

\* the time of the next call
Now == nCalls + 1

\* what the store held when the call started
Before ==
    [caseIds |-> {cases[i].caseId : i \in 1..Len(cases)},
     cases |-> cases,
     evidence |-> evidence,
     notes |-> investigations,
     trail |-> Len(auditTrail),
     alerts |-> Len(alerts)]

SetStore(cm) ==
    /\ cases' = cm.cases
    /\ investigations' = cm.investigations
    /\ evidence' = cm.evidence
    /\ auditTrail' = cm.auditTrail
    /\ alerts' = cm.alerts

CreateFraudCase(riskAssessment, caseId) ==
    /\ \E cm \in {createFraudCase(Drawing(CaseStore, caseId), riskAssessment,
                                 TheClaim, TheClaimant, "INV_001")} : SetStore(cm)
    /\ last' = [op |-> "createFraudCase", caseId |-> caseId, returned |-> TRUE,
                riskAssessment |-> riskAssessment, before |-> Before]
    /\ nCalls' = nCalls + 1
    /\ UNCHANGED <<engineVars, nAdmin, probe, scorerVars, patternVars, pending>>

UpdateCaseStatus(caseId, newStatus, reason) ==
    /\ \E r \in {updateCaseStatus(CaseStore, caseId, newStatus, "INV_001", reason,
                                 Now)} :
          /\ SetStore(r.store)
          /\ last' = [op |-> "updateCaseStatus", caseId |-> caseId,
                      returned |-> r.returned, newStatus |-> newStatus,
                      reason |-> reason, now |-> Now, before |-> Before]
    /\ nCalls' = nCalls + 1
    /\ UNCHANGED <<engineVars, nAdmin, probe, scorerVars, patternVars, pending>>

AddInvestigationNote(caseId) ==
    /\ \E cm \in {addInvestigationNote(CaseStore, caseId, "INV_001", "INTERVIEW")} :
          SetStore(cm)
    /\ last' = [op |-> "addInvestigationNote", caseId |-> caseId, returned |-> TRUE,
                before |-> Before]
    /\ nCalls' = nCalls + 1
    /\ UNCHANGED <<engineVars, nAdmin, probe, scorerVars, patternVars, pending>>

AddEvidence(caseId, collectedBy) ==
    /\ \E cm \in {addEvidence(CaseStore, caseId, "DOCUMENT", collectedBy, Now)} :
          SetStore(cm)
    /\ last' = [op |-> "addEvidence", caseId |-> caseId, returned |-> TRUE,
                collectedBy |-> collectedBy, now |-> Now, before |-> Before]
    /\ nCalls' = nCalls + 1
    /\ UNCHANGED <<engineVars, nAdmin, probe, scorerVars, patternVars, pending>>

NextCases ==
    /\ nCalls < MaxCaseOps
    /\ \/ \E riskAssessment \in CaseAssessments, caseId \in CaseIds :
             CreateFraudCase(riskAssessment, caseId)
       \/ \E caseId \in CaseIds, newStatus \in Statuses, reason \in Reasons :
             UpdateCaseStatus(caseId, newStatus, reason)
       \/ \E caseId \in CaseIds : AddInvestigationNote(caseId)
       \/ \E caseId \in CaseIds, collectedBy \in {"INV_001", "INV_002"} :
             AddEvidence(caseId, collectedBy)

SpecCases == Init /\ [][NextCases]_vars

----------------------------------------------------------------------------
(* createFraudCase step by step: each action runs from one await to the next *)

MaxPending == 2
MaxAsyncOps == 3

\* a createFraudCase call suspended at an await: at assignInvestigator the
\* case object is built but for its investigator and dates, and not stored
SuspendedCall(at, fraudCase, initiatedBy) ==
    [at |-> at, fraudCase |-> fraudCase, initiatedBy |-> initiatedBy]

\* from the return of assignInvestigator to the await of addInvestigationNote:
\* the three map writes, and the body of addInvestigationNote, which has no
\* await of its own
StoreAndNote(cm, call) ==
    addInvestigationNote(StoreCase(cm, call.fraudCase), call.fraudCase.caseId,
                         "SYSTEM", "GENERAL")

\* from the return of addInvestigationNote to the await of createSystemAlert,
\* or to the return when the priority asks for no alert
AuditAndAlert(cm, call) ==
    AlertIfUrgent(addAuditEntry(cm, CreationAudit(call.fraudCase.caseId,
                                                  call.initiatedBy)),
                  call.fraudCase.priority, call.fraudCase.caseId, call.initiatedBy)

\* the sequence without its k-th element
Without(s, k) == SubSeq(s, 1, k - 1) \o SubSeq(s, k + 1, Len(s))

getAllCases(cm) == cm.cases

getCasesByStatus(cm, status) == SelectSeq(cm.cases, LAMBDA c : c.status = status)

\* the filter of getHighPriorityCases, then its sort: CRITICAL before HIGH,
\* each in insertion order
getHighPriorityCases(cm) ==
    SelectSeq(cm.cases, LAMBDA c : c.priority = "CRITICAL")
        \o SelectSeq(cm.cases, LAMBDA c : c.priority = "HIGH")

\* what a read query returns
QueryResult(query) ==
    CASE query = "getAllCases" -> getAllCases(CaseStore)
      [] query = "getHighPriorityCases" -> getHighPriorityCases(CaseStore)
      [] OTHER -> getCasesByStatus(CaseStore, query)

Queries == {"getAllCases", "getHighPriorityCases", "OPEN", "UNDER_INVESTIGATION"}

\* createFraudCase up to its first await
BeginCreateFraudCase(riskAssessment, caseId) ==
    /\ nCalls < MaxAsyncOps
    /\ Len(pending) < MaxPending
    /\ pending' = Append(pending,
                         SuspendedCall("assignInvestigator",
                                       NewFraudCase(caseId, riskAssessment, TheClaim,
                                                    TheClaimant),
                                       "INV_001"))
    /\ last' = [op |-> "createFraudCase", at |-> "assignInvestigator",
                caseId |-> caseId]
    /\ nCalls' = nCalls + 1
    /\ UNCHANGED <<engineVars, caseVars, nAdmin, probe, scorerVars, patternVars>>

\* the k-th suspended call runs on from assignInvestigator
ResumeAfterAssign(k) ==
    /\ k \in 1..Len(pending)
    /\ pending[k].at = "assignInvestigator"
    /\ SetStore(StoreAndNote(CaseStore, pending[k]))
    /\ pending' = [pending EXCEPT ![k].at = "addInvestigationNote"]
    /\ last' = [op |-> "createFraudCase", at |-> "addInvestigationNote",
                caseId |-> pending[k].fraudCase.caseId]
    /\ UNCHANGED <<engineVars, nAdmin, nCalls, probe, scorerVars, patternVars>>

\* the k-th suspended call runs on from addInvestigationNote
ResumeAfterNote(k) ==
    /\ k \in 1..Len(pending)
    /\ pending[k].at = "addInvestigationNote"
    /\ SetStore(AuditAndAlert(CaseStore, pending[k]))
    /\ pending' = IF pending[k].fraudCase.priority \in {"HIGH", "CRITICAL"}
                  THEN [pending EXCEPT ![k].at = "createSystemAlert"]
                  ELSE Without(pending, k)
    /\ last' = [op |-> "createFraudCase",
                at |-> IF pending[k].fraudCase.priority \in {"HIGH", "CRITICAL"}
                       THEN "createSystemAlert" ELSE "return",
                caseId |-> pending[k].fraudCase.caseId]
    /\ UNCHANGED <<engineVars, nAdmin, nCalls, probe, scorerVars, patternVars>>

\* the k-th suspended call returns after createSystemAlert
ResumeAfterAlert(k) ==
    /\ k \in 1..Len(pending)
    /\ pending[k].at = "createSystemAlert"
    /\ pending' = Without(pending, k)
    /\ last' = [op |-> "createFraudCase", at |-> "return",
                caseId |-> pending[k].fraudCase.caseId]
    /\ UNCHANGED <<engineVars, caseVars, nAdmin, nCalls, probe, scorerVars,
                   patternVars>>

\* a read query, run between two steps of the calls in flight
ReadCases(query) ==
    /\ last' = [op |-> "query", query |-> query, seen |-> QueryResult(query),
                inFlight |-> Len(pending)]
    /\ UNCHANGED <<engineVars, caseVars, nAdmin, nCalls, probe, scorerVars,
                   patternVars, pending>>

NextAsync ==
    \/ \E riskAssessment \in CaseAssessments, caseId \in CaseIds :
          BeginCreateFraudCase(riskAssessment, caseId)
    \/ \E k \in 1..MaxPending : ResumeAfterAssign(k)
    \/ \E k \in 1..MaxPending : ResumeAfterNote(k)
    \/ \E k \in 1..MaxPending : ResumeAfterAlert(k)
    \/ \E query \in Queries : ReadCases(query)

SpecAsync == Init /\ [][NextAsync]_vars

----------------------------------------------------------------------------
(* The three determineRiskLevel functions, on pairs of scores *)

\* scores around every threshold, and the ends of the range
LevelScores == {-5, 0, 49, 50, 51, 99, 100, 101, 199, 200, 201, 1000}

InitLevel ==
    /\ Constructed
    /\ probe \in [kind : {"scores"}, s1 : LevelScores, s2 : LevelScores,
                  shouldBlock : BOOLEAN]

DetermineRiskLevel ==
    /\ probe.kind = "scores"
    /\ probe' = [kind |-> "levels", s1 |-> probe.s1, s2 |-> probe.s2,
                 shouldBlock |-> probe.shouldBlock,
                 bre |-> <<BREdetermineRiskLevel(probe.s1, probe.shouldBlock),
                           BREdetermineRiskLevel(probe.s2, probe.shouldBlock)>>,
                 rt |-> <<RTdetermineRiskLevel(probe.s1),
                          RTdetermineRiskLevel(probe.s2)>>,
                 efa |-> <<EFAdetermineRiskLevel(probe.s1),
                           EFAdetermineRiskLevel(probe.s2)>>]
    /\ UNCHANGED <<engineVars, caseVars, last, nAdmin, nCalls, scorerVars, patternVars,
                   pending>>

NextLevel == DetermineRiskLevel

SpecLevel == InitLevel /\ [][NextLevel]_vars

----------------------------------------------------------------------------
(* evaluateCondition, on single conditions *)

FieldValues ==
    {Undef, Num(25), Num(0), Str("abc"), Str("12"), Str(""), Bool(TRUE)}

ConditionValues ==
    {Undef, Num(10), Str("abc"), Str("b"), Str("a.c"), Str("(b"), Str("x"),
     List(<<Str("abc"), Num(25)>>), List(<<>>)}

InitCond ==
    /\ Constructed
    /\ probe \in [kind : {"condition"}, operator : Operators \cup {"BETWEEN"},
                  fieldValue : FieldValues, value : ConditionValues]

EvaluateCondition ==
    /\ probe.kind = "condition"
    /\ probe' = [kind |-> "outcome", operator |-> probe.operator,
                 fieldValue |-> probe.fieldValue, value |-> probe.value,
                 outcome |-> evaluateCondition(
                                 Cond("field", probe.operator, probe.value),
                                 probe.fieldValue)]
    /\ UNCHANGED <<engineVars, caseVars, last, nAdmin, nCalls, scorerVars, patternVars,
                   pending>>

NextCond == EvaluateCondition

SpecCond == InitCond /\ [][NextCond]_vars

----------------------------------------------------------------------------
(* createFraudCase, on assessments with every mix of risk-factor names *)

\* names that meet each test of determineCaseType, two tests at once, a test in
\* another letter case, and none
FactorNames ==
    {"Deceased Claimant Check", "Identity Mismatch", "Wage Discrepancy",
     "Employment Gap", "Employer Collusion", "Employer Wage Report",
     "Multiple Claims", "Pattern Anomaly", "identity pattern", "Velocity Check"}

MaxFactors == 2

FactorNameLists == UNION {[1..n -> FactorNames] : n \in 0..MaxFactors}

RiskLevels == {"LOW", "MEDIUM", "HIGH", "CRITICAL"}

AssessmentNamed(names, riskLevel) ==
    [riskLevel |-> riskLevel, overallRiskScore |-> 120,
     riskFactors |-> [i \in 1..Len(names) |->
                         RiskFactor("RULE", names[i], "IDENTITY", 75)]]

InitCaseType ==
    /\ Constructed
    /\ probe \in [kind : {"assessment"}, names : FactorNameLists,
                  riskLevel : RiskLevels]

CreateCaseOfProbe ==
    /\ probe.kind = "assessment"
    /\ \E cm \in {createFraudCase(Drawing(CaseStore, "CASE_A"),
                                 AssessmentNamed(probe.names, probe.riskLevel),
                                 TheClaim, TheClaimant, "INV_001")} : SetStore(cm)
    /\ probe' = [probe EXCEPT !.kind = "case"]
    /\ last' = [op |-> "createFraudCase", caseId |-> "CASE_A", returned |-> TRUE,
                riskAssessment |-> AssessmentNamed(probe.names, probe.riskLevel),
                before |-> Before]
    /\ nCalls' = nCalls + 1
    /\ UNCHANGED <<engineVars, nAdmin, scorerVars, patternVars, pending>>

NextCaseType == CreateCaseOfProbe

SpecCaseType == InitCaseType /\ [][NextCaseType]_vars

----------------------------------------------------------------------------
(* scoreRiskRealTime *)

MaxScoreCalls == 3
MaxHistoryCalls == 12
MaxOtherCalls == 1

ScorerState ==
    Scorer(riskPatterns, behavioralProfiles, emergingThreats, continuousLearning)

SetScorer(rt) ==
    /\ riskPatterns' = rt.riskPatterns
    /\ behavioralProfiles' = rt.behavioralProfiles
    /\ emergingThreats' = rt.emergingThreats
    /\ continuousLearning' = rt.continuousLearning

Metrics(typingSpeed, sessionDuration, deviceFingerprint, locationConsistency) ==
    [session |-> 0, typingSpeed |-> typingSpeed, sessionDuration |-> sessionDuration,
     deviceFingerprint |-> deviceFingerprint,
     locationConsistency |-> locationConsistency]

UsualSession == Metrics(60, 300, "device-1", 90)
HastySession == Metrics(200, 300, "device-2", 90)
RemoteSession == Metrics(60, 300, "device-1", 10)

\* a context with nothing in it but, perhaps, behavioralMetrics
QuietContext(hasMetrics, metrics) ==
    [hasMetrics |-> hasMetrics, behavioralMetrics |-> metrics,
     recentClaims |-> 0, unusualBehavior |-> 0, syntheticScore |-> 0,
     averageDistance |-> -1, sharedAddressCount |-> 0, sharedPhoneCount |-> 0,
     recentFraudConfirmations |-> <<>>, recentFalsePositives |-> <<>>]

\* a context that meets every pattern and every cross-reference test
LoudContext(hasMetrics, metrics) ==
    [hasMetrics |-> hasMetrics, behavioralMetrics |-> metrics,
     recentClaims |-> 3, unusualBehavior |-> 90, syntheticScore |-> 90,
     averageDistance |-> 600, sharedAddressCount |-> 6, sharedPhoneCount |-> 4,
     recentFraudConfirmations |-> <<[weeklyBenefitAmount |-> 460, riskScore |-> 25]>>,
     recentFalsePositives |-> <<>>]

ScorerContexts ==
    {QuietContext(FALSE, UsualSession), QuietContext(TRUE, UsualSession),
     QuietContext(TRUE, HastySession), QuietContext(TRUE, RemoteSession),
     LoudContext(FALSE, UsualSession), LoudContext(TRUE, UsualSession)}

HistoryContexts == {QuietContext(FALSE, UsualSession), QuietContext(TRUE, UsualSession)}

ScoredClaim == [claimId |-> "CLM_1", weeklyBenefitAmount |-> 450, createdHour |-> 10]

ScoredClaimants ==
    {[claimantId |-> "CLT_1", riskScore |-> 20],
     [claimantId |-> "CLT_2", riskScore |-> 75]}

\* the context of the call, its session being the one of this call
InSession(context, session) ==
    [context EXCEPT !.behavioralMetrics.session = session]

ScoreRiskRealTime(claimant, context) ==
    /\ \E r \in {scoreRiskRealTime(ScorerState, ScoredClaim, claimant,
                                    InSession(context, nCalls + 1))} :
          /\ SetScorer(r.scorer)
          /\ last' = [op |-> "scoreRiskRealTime", claimantId |-> claimant.claimantId,
                      context |-> InSession(context, nCalls + 1),
                      profilesBefore |-> behavioralProfiles, result |-> r.result]
    /\ scoringLog' = IF context.hasMetrics
                     THEN Append(scoringLog, [claimantId |-> claimant.claimantId,
                                              session |-> nCalls + 1])
                     ELSE scoringLog
    /\ nCalls' = nCalls + 1
    /\ UNCHANGED <<engineVars, caseVars, nAdmin, probe, patternVars, pending>>

NextScorer ==
    /\ nCalls < MaxScoreCalls
    /\ \E claimant \in ScoredClaimants, context \in ScorerContexts :
          ScoreRiskRealTime(claimant, context)

SpecScorer == Init /\ [][NextScorer]_vars

\* the calls of the second claimant made so far
OtherCalls ==
    Cardinality({i \in 1..Len(scoringLog) : scoringLog[i].claimantId = "CLT_2"})

\* long runs of sessions of one claimant, with a few calls of another claimant
\* and calls without metrics in between
NextHistory ==
    /\ nCalls < MaxHistoryCalls
    /\ \E claimant \in ScoredClaimants, context \in HistoryContexts :
          /\ claimant.claimantId = "CLT_2" => OtherCalls < MaxOtherCalls
          /\ ~context.hasMetrics => nCalls + 1 - Len(scoringLog) <= MaxOtherCalls
          /\ ScoreRiskRealTime(claimant, context)

SpecHistory == Init /\ [][NextHistory]_vars

----------------------------------------------------------------------------
(* the scorer with its maintenance timer and addCustomPattern *)

MaxLearningTicks == 4
MaxCustomPatterns == 1
MaxLearningCalls == 1

\* a context whose false positives outweigh what the claim scores otherwise
LenientContext ==
    [QuietContext(FALSE, UsualSession) EXCEPT
        !.recentFalsePositives = <<[weeklyBenefitAmount |-> 440, riskScore |-> 30],
                                   [weeklyBenefitAmount |-> 460, riskScore |-> 10]>>]

LearningContexts ==
    {QuietContext(FALSE, UsualSession), LoudContext(TRUE, RemoteSession),
     LenientContext}

\* the draws of one timer run, one per pattern
StepDraws(n) ==
    {[i \in 1..n |-> 2], [i \in 1..n |-> (i % 3)]}

EffectivenessDraws(n) ==
    {[i \in 1..n |-> "above"], [i \in 1..n |-> "below"],
     [i \in 1..n |-> IF i % 2 = 0 THEN "between" ELSE "below"]}

\* what callers pass to addCustomPattern
CustomPatterns ==
    {[weight |-> 5, conditions |-> <<>>, emergingThreat |-> TRUE],
     [weight |-> 2000, conditions |-> <<>>, emergingThreat |-> FALSE],
     [weight |-> 40, conditions |-> <<"recentClaims", "syntheticScore">>,
      emergingThreat |-> FALSE]}

CustomPatternIds == {"CUSTOM_1", "CUSTOM_2"}

\* the number of addCustomPattern calls so far
CustomAdded == Len(riskPatterns) - Len(DefaultRiskPatterns)

\* the callback of startContinuousLearning
ContinuousLearningTick(steps, effectiveness) ==
    /\ nTicks < MaxLearningTicks
    /\ SetScorer(adjustPatternWeights(updateEmergingThreats(ScorerState, steps),
                                      effectiveness))
    /\ nTicks' = nTicks + 1
    /\ last' = [op |-> "continuousLearning", steps |-> steps]
    /\ UNCHANGED <<engineVars, caseVars, nAdmin, nCalls, probe, scoringLog,
                   knownSchemes, emergingPatterns, alertHistory,
                   pending>>

AddCustomPattern(pattern, id) ==
    /\ CustomAdded < MaxCustomPatterns
    /\ SetScorer(addCustomPattern(ScorerState, pattern, id))
    /\ last' = [op |-> "addCustomPattern", pattern |-> pattern, id |-> id]
    /\ UNCHANGED <<engineVars, caseVars, nAdmin, nCalls, probe, scoringLog,
                   patternVars, pending>>

ToggleContinuousLearning(enabled) ==
    /\ continuousLearning # enabled
    /\ SetScorer(toggleContinuousLearning(ScorerState, enabled))
    /\ last' = [op |-> "toggleContinuousLearning", enabled |-> enabled]
    /\ UNCHANGED <<engineVars, caseVars, nAdmin, nCalls, probe, scoringLog,
                   patternVars, pending>>

LearningScore(claimant, context) ==
    /\ nCalls < MaxLearningCalls
    /\ ScoreRiskRealTime(claimant, context)

NextLearning ==
    \/ \E steps \in StepDraws(Len(riskPatterns)),
          effectiveness \in EffectivenessDraws(Len(riskPatterns)) :
          ContinuousLearningTick(steps, effectiveness)
    \/ \E pattern \in CustomPatterns, id \in CustomPatternIds :
          AddCustomPattern(pattern, id)
    \/ \E enabled \in BOOLEAN : ToggleContinuousLearning(enabled)
    \/ \E claimant \in ScoredClaimants, context \in LearningContexts :
          LearningScore(claimant, context)

SpecLearning == Init /\ [][NextLearning]_vars

----------------------------------------------------------------------------
(* detectEmergingSchemes, the monitoring timer and addCustomScheme *)

MaxDetections == 2
MaxTicks == 4
MaxCustom == 1

PatternEngine == Engine(knownSchemes, emergingPatterns, alertHistory)

SetEngine(pde) ==
    /\ knownSchemes' = pde.knownSchemes
    /\ emergingPatterns' = pde.emergingPatterns
    /\ alertHistory' = pde.alertHistory

\* the time of the detection calls
BatchTime == 100 * Day

SharedIP == "203.0.113.5"

\* n claims "C1".."Cn" of claimants "P1".."Pn", filed a minute apart
RingClaim(i, ipAddress, employerId) ==
    BatchClaim("C" \o NatToStr(i), "P" \o NatToStr(i), ipAddress, employerId,
               BatchTime - 10 * Day + 60 * i)

\* the claims of the batch all have the IP address, but the claims from
\* position `others` on, which have one of their own
ClaimsFromOneIP(n, ipAddress, others) ==
    [i \in 1..n |->
        RingClaim(i, IF i < others THEN ipAddress
                     ELSE Str("198.51.100." \o NatToStr(i)), Undef)]

\* n claimants with an SSN each, the first `sharing` of them sharing one
Claimants(n, sharing, riskScore, address) ==
    [i \in 1..n |->
        BatchClaimant("P" \o NatToStr(i),
                      IF i <= sharing THEN "SSN-0" ELSE "SSN-" \o NatToStr(i),
                      riskScore, BatchTime - 5 * Day,
                      IF address = "" THEN "Street " \o NatToStr(i) ELSE address)]

Batch(claims, claimants) == [claims |-> claims, claimants |-> claimants]

\* twelve claims of one employer, from private network addresses, a minute
\* apart, handed over latest first
BotClaims ==
    [i \in 1..12 |->
        BatchClaim("C" \o NatToStr(i), "P" \o NatToStr(i),
                   Str("10.0.0." \o NatToStr(i)), Str("EMP_1"),
                   BatchTime - 60 * i)]

Batches ==
    {Batch(<<>>, <<>>),
     \* six claims from one IP address and a seventh from another; two
     \* claimants share an SSN
     Batch(ClaimsFromOneIP(7, Str(SharedIP), 7), Claimants(7, 2, 20, "")),
     \* the same claims, every claimant with an SSN of their own
     Batch(ClaimsFromOneIP(7, Str(SharedIP), 7), Claimants(7, 0, 20, "")),
     \* five claims from one IP address; two claimants share an SSN
     Batch(ClaimsFromOneIP(6, Str(SharedIP), 6), Claimants(6, 2, 20, "")),
     \* six claims without an ipAddress; two claimants share an SSN
     Batch(ClaimsFromOneIP(6, Undef, 7), Claimants(6, 2, 20, "")),
     \* nine and eight claims from one IP address
     Batch(ClaimsFromOneIP(9, Str(SharedIP), 10), Claimants(9, 0, 20, "")),
     Batch(ClaimsFromOneIP(8, Str(SharedIP), 9), Claimants(8, 0, 20, "")),
     \* the claims of a bot, their claimants risky, new and at one address
     Batch(BotClaims, Claimants(12, 0, 90, "1 Main St_Springfield_12345"))}

PatternIds == {"EMERGING_1700000000000_k3j9x2m1q", "EMERGING_1700000300000_a8b7c6d5e"}

\* the ids drawn for the patterns of one call
IdDraws == [1..1 -> PatternIds]

\* (Math.random() - 0.5) * 0.02 for each scheme, in thousandths
Adjustments == {<<-10>>, <<9, -10>>}

CustomSchemes ==
    {[severity |-> "MEDIUM", detectionRules |-> <<"ssnGroup", "foreignIPs">>,
      successRate |-> 600]}

CustomIds == {"CUSTOM_1700000000000"}

DetectEmergingSchemes(batch, idDraws) ==
    /\ \E r \in {detectEmergingSchemes(PatternEngine, batch.claims, batch.claimants,
                                      BatchTime, idDraws)} :
          /\ SetEngine(r.engine)
          /\ last' = [op |-> "detectEmergingSchemes", batch |-> batch,
                      alerts |-> r.alerts, claims |-> r.claims,
                      schemesBefore |-> knownSchemes,
                      emergingBefore |-> emergingPatterns]
    /\ nCalls' = nCalls + 1
    /\ UNCHANGED <<engineVars, caseVars, scorerVars, nAdmin, nTicks, probe, pending>>

PatternMonitoring(adjustments) ==
    /\ SetEngine(PatternMonitoringTick(PatternEngine, adjustments))
    /\ last' = [op |-> "patternMonitoring", schemesBefore |-> knownSchemes,
                emergingBefore |-> emergingPatterns]
    /\ nTicks' = nTicks + 1
    /\ UNCHANGED <<engineVars, caseVars, scorerVars, nAdmin, nCalls, probe, pending>>

AddCustomScheme(scheme, customId) ==
    /\ SetEngine(addCustomScheme(PatternEngine, scheme, customId))
    /\ last' = [op |-> "addCustomScheme", schemesBefore |-> knownSchemes,
                emergingBefore |-> emergingPatterns]
    /\ nAdmin' = nAdmin + 1
    /\ UNCHANGED <<engineVars, caseVars, scorerVars, nCalls, nTicks, probe, pending>>

NextPatterns ==
    \/ /\ nCalls < MaxDetections
       /\ \E batch \in Batches, idDraws \in IdDraws :
             DetectEmergingSchemes(batch, idDraws)
    \/ /\ nTicks < MaxTicks
       /\ \E adjustments \in Adjustments : PatternMonitoring(adjustments)
    \/ /\ nAdmin < MaxCustom
       /\ \E scheme \in CustomSchemes, customId \in CustomIds :
             AddCustomScheme(scheme, customId)

SpecPatterns == Init /\ [][NextPatterns]_vars

----------------------------------------------------------------------------
(* Properties *)

Rank(level) ==
    CASE level = "LOW" -> 0
      [] level = "MEDIUM" -> 1
      [] level = "HIGH" -> 2
      [] level = "CRITICAL" -> 3

AfterEvaluateRules == last.op = "evaluateRules"
AfterAnalyze == last.op = "analyzeClaimEnterprise"

\* every condition of the list holds of the context, each taken on its own
AllHold(conditions, context) ==
    \A i \in 1..Len(conditions) :
        evaluateCondition(conditions[i],
                          getFieldValue(conditions[i].fieldName, context)) = "true"

\* the active rules of rs whose conditions all hold, in definition order
HoldingRules(rs, in) ==
    LET holds(rule) == rule.isActive /\ AllHold(rule.conditions, EvaluationContext(in))
    IN SelectSeq(rs, holds)

IdsOf(rs) == [i \in 1..Len(rs) |-> rs[i].ruleId]

\* the rule ids of the audit entries that log has after its first n
IdsAfter(log, n) == [k \in 1..(Len(log) - n) |-> log[n + k].ruleId]

FactorIds(assessment) ==
    [k \in 1..Len(assessment.riskFactors) |-> assessment.riskFactors[k].factorId]

\* the action types the rules of rs carry
ActionTypes(rs) ==
    UNION {{rs[i].actions[j].actionType : j \in 1..Len(rs[i].actions)} :
              i \in 1..Len(rs)}

RECURSIVE SumSeq(_)
SumSeq(ns) == IF ns = <<>> THEN 0 ELSE ns[1] + SumSeq(Tail(ns))

\* what the ADD_SCORE actions of one rule add up to
AddScoreOf(rule) ==
    SumSeq([j \in 1..Len(rule.actions) |->
               IF rule.actions[j].actionType = "ADD_SCORE"
                  /\ "score" \in DOMAIN rule.actions[j].parameters
               THEN rule.actions[j].parameters.score ELSE 0])

AddScoreSum(rs) == SumSeq([i \in 1..Len(rs) |-> AddScoreOf(rs[i])])

\* the number of places of the sequence that hold x
Count(seq, x) == Cardinality({k \in 1..Len(seq) : seq[k] = x})

----------------------------------------------------------------------------
\* C1: when the rule engine raises inside analyzeClaimEnterprise, the call
\* returns (it does not raise) the fallback assessment: score 0, level LOW,
\* exactly one risk factor, of id SYSTEM_ERROR, requiresInvestigation true and
\* autoApprovalEligible false.
C1_FallbackOnFailure ==
    AfterAnalyze /\ last.engineThrew =>
        /\ ~last.threw
        /\ last.fellBack
        /\ last.assessment.overallRiskScore = 0
        /\ last.assessment.riskLevel = "LOW"
        /\ FactorIds(last.assessment) = <<"SYSTEM_ERROR">>
        /\ last.assessment.requiresInvestigation
        /\ ~last.assessment.autoApprovalEligible

\* an analysis during which the rule engine raised
C1_Witness == AfterAnalyze /\ last.engineThrew /\ last.fellBack

\* C2: in every assessment evaluateRules or analyzeClaimEnterprise returns,
\* autoApprovalEligible implies that the risk level is LOW and that no
\* BLOCK_CLAIM action fired.
C2_AutoApprovalOnlyWhenLow ==
    (AfterEvaluateRules /\ ~last.threw) \/ AfterAnalyze =>
        (last.assessment.autoApprovalEligible =>
            last.assessment.riskLevel = "LOW" /\ ~last.shouldBlock)

\* C3: after an evaluateRules call the rules that triggered (one audit entry
\* and, in the returned assessment, one risk factor each) are exactly the
\* active rules all of whose conditions hold, a rule without conditions among
\* them.
C3_TriggersIffAllConditionsHold ==
    AfterEvaluateRules =>
        /\ IdsAfter(auditLog, last.logBefore) = IdsOf(HoldingRules(rules, last.in))
        /\ ~last.threw =>
              FactorIds(last.assessment) = IdsOf(HoldingRules(rules, last.in))

\* C4: for scores s1 <= s2 under one block status, each of the three
\* determineRiskLevel functions gives s2 a level at least that of s1, in the
\* order LOW < MEDIUM < HIGH < CRITICAL.
C4_LevelMonotone ==
    probe.kind = "levels" /\ probe.s1 <= probe.s2 =>
        /\ Rank(probe.bre[1]) <= Rank(probe.bre[2])
        /\ Rank(probe.rt[1]) <= Rank(probe.rt[2])
        /\ Rank(probe.efa[1]) <= Rank(probe.efa[2])

\* two scores on the two sides of a threshold, and the levels computed
C4_Witness ==
    /\ probe.kind = "levels"
    /\ probe.s1 < probe.s2
    /\ ~probe.shouldBlock
    /\ Rank(probe.bre[1]) < Rank(probe.bre[2])
    /\ Rank(probe.rt[1]) < Rank(probe.rt[2])
    /\ Rank(probe.efa[1]) < Rank(probe.efa[2])

\* the level the thresholds give a score, blocked or not
LevelOf(score, blocked) ==
    IF score >= 200 \/ blocked THEN "CRITICAL"
    ELSE IF score >= 100 THEN "HIGH"
    ELSE IF score >= 50 THEN "MEDIUM"
    ELSE "LOW"

\* C5: the assessment evaluateRules returns has as score the sum of the
\* ADD_SCORE amounts of the triggered rules, as level CRITICAL from 200 or when
\* a BLOCK_CLAIM action fired, else HIGH from 100, else MEDIUM from 50, else
\* LOW, and requiresInvestigation exactly when a CREATE_CASE or
\* REQUIRE_VERIFICATION action fired; with the default catalog, when only
\* ID_001 fires, the score is 75 and the level MEDIUM.
C5_ScoreAndLevel ==
    AfterEvaluateRules /\ ~last.threw =>
        LET fired == HoldingRules(rules, last.in)
        IN /\ last.assessment.overallRiskScore = AddScoreSum(fired)
           /\ last.assessment.riskLevel =
                 LevelOf(AddScoreSum(fired), "BLOCK_CLAIM" \in ActionTypes(fired))
           /\ last.assessment.requiresInvestigation =
                 (ActionTypes(fired) \cap {"CREATE_CASE", "REQUIRE_VERIFICATION"} # {})
           /\ rules = DefaultRules /\ IdsOf(fired) = <<"ID_001">> =>
                 /\ last.assessment.overallRiskScore = 75
                 /\ last.assessment.riskLevel = "MEDIUM"

\* the default catalog evaluated on a claim whose SSN is in use twice, alone
C5_Witness ==
    /\ AfterEvaluateRules
    /\ ~last.threw
    /\ rules = DefaultRules
    /\ last.in.ssnUsageCount > 1
    /\ FactorIds(last.assessment) = <<"ID_001">>

\* the operator cannot be applied to these values
Incompatible(operator, fieldValue, value) ==
    \/ operator \in {"GREATER_THAN", "LESS_THAN"}
          /\ (ToNumber(fieldValue).nan \/ ToNumber(value).nan)
    \/ operator \in {"IN_LIST", "NOT_IN_LIST"} /\ value.t # "list"
    \/ operator = "REGEX" /\ RegExpThrows(PatternOf(value))

\* C6: evaluateCondition raises for no operator, field value and condition
\* value, and an operator applied to a value it cannot be applied to makes the
\* condition false.
C6_ConditionNeverThrows ==
    probe.kind = "outcome" =>
        /\ probe.outcome \in {"true", "false"}
        /\ Incompatible(probe.operator, probe.fieldValue, probe.value) =>
              probe.outcome = "false"

\* the fields of a rule that deactivateRule may write
Stamped == {"isActive", "lastModifiedDate"}

\* rs2 is rs1 with the first rule of that id switched off, and nothing else
DeactivatedIn(rs1, rs2, ruleId) ==
    /\ Len(rs2) = Len(rs1)
    /\ \A i \in 1..Len(rs1) :
          IF i = FindIndex(rs1, ruleId)
          THEN /\ ~rs2[i].isActive
               /\ \A k \in DOMAIN rs1[i] \ Stamped : rs2[i][k] = rs1[i][k]
          ELSE rs2[i] = rs1[i]

\* C7: no step takes a rule out of the catalog: the catalog never shrinks and
\* every rule keeps its place and its id; deactivateRule switches isActive off
\* on the rule named and leaves every other rule as it was; the entries an
\* evaluateRules call logs are of rules that are active; updateRule and
\* deactivateRule on an id the catalog does not hold return false and leave
\* the catalog as it was.
C7_NoRuleRemoved ==
    [][/\ Len(rules') >= Len(rules)
       /\ \A i \in 1..Len(rules) : rules'[i].ruleId = rules[i].ruleId
       /\ last'.op = "deactivateRule" /\ last'.ruleId \in RuleIdsOf(rules) =>
             last'.returned /\ DeactivatedIn(rules, rules', last'.ruleId)
       /\ last'.op \in {"updateRule", "deactivateRule"}
             /\ last'.ruleId \notin RuleIdsOf(rules) =>
             ~last'.returned /\ rules' = rules
       /\ last'.op = "evaluateRules" =>
             \A id \in RuleIdsOf(rules) :
                 Count(IdsAfter(auditLog', Len(auditLog)), id)
                     <= Count(IdsOf(ActiveRules(rules)), id)]_vars

\* an evaluation that a deactivated rule would have triggered in, all of its
\* conditions holding
C7_Witness ==
    /\ AfterEvaluateRules
    /\ \E i \in 1..Len(rules) :
          /\ ~rules[i].isActive
          /\ AllHold(rules[i].conditions, EvaluationContext(last.in))
          /\ Count(IdsAfter(auditLog, last.logBefore), rules[i].ruleId) = 0

\* what the rule engine did in the last call, made directly or by the analyzer
EngineCall ==
    IF last.op = "evaluateRules"
    THEN [threw |-> last.threw, assessment |-> last.assessment]
    ELSE [threw |-> last.engineThrew, assessment |-> last.bre]

IsPrefix(s1, s2) == Len(s1) <= Len(s2) /\ SubSeq(s2, 1, Len(s1)) = s1

\* C8: every step leaves the entries of the audit log in place and unaltered;
\* an evaluateRules call appends one entry per triggered rule, with the rule's
\* id, in definition order, as many as the assessment it returns has risk
\* factors.
C8_AuditLogAppendOnly ==
    [][/\ IsPrefix(auditLog, auditLog')
       /\ last'.op \in {"evaluateRules", "analyzeClaimEnterprise"} =>
             \E added \in {IdsAfter(auditLog', Len(auditLog))} :
             \E held \in {IdsOf(HoldingRules(rules, last'.in))} :
                /\ IsPrefix(added, held)
                /\ ~EngineCall'.threw =>
                      /\ added = held
                      /\ added = FactorIds(EngineCall'.assessment)
       /\ last'.op \notin {"evaluateRules", "analyzeClaimEnterprise"} =>
             auditLog' = auditLog]_vars

\* a second call that puts two entries after those of the first
C8_Witness ==
    /\ AfterEvaluateRules \/ AfterAnalyze
    /\ last.logBefore > 0
    /\ Len(auditLog) >= last.logBefore + 2
    /\ ~EngineCall.threw

\* C9: with justification text present, the total after the AI step is at
\* most 1000, and is the rule engine's score raised by what the oracle added
\* wherever that is not above 1000.
C9_TotalAfterAICapped ==
    AfterAnalyze /\ ~last.fellBack /\ HasJustificationText(last.in) =>
        /\ last.afterAI <= 1000
        /\ last.afterAI >= Min(1000, last.bre.overallRiskScore)
        /\ last.afterAI - last.bre.overallRiskScore <= 100

\* a rule engine score under 1000 that the oracle's addition takes to the cap
C9_Witness ==
    /\ AfterAnalyze
    /\ ~last.fellBack
    /\ HasJustificationText(last.in)
    /\ last.bre.overallRiskScore < 1000
    /\ last.afterAI = 1000

\* the number of cases the last call created: createFraudCase writes one
\* CREATE entry on the audit trail for the case it creates
CasesCreated ==
    Cardinality({k \in (last.trailBefore + 1)..Len(auditTrail) :
                    auditTrail[k].action = "CREATE"})

\* C10 as written: one analyzeClaimEnterprise call creates at most one case,
\* and off the fallback path exactly one when requiresInvestigation is true
\* and none when it is false.
C10_CaseIffRequiresInvestigation ==
    AfterAnalyze =>
        /\ CasesCreated \in {0, 1}
        /\ ~last.fellBack =>
              (CasesCreated = 1) = last.assessment.requiresInvestigation

\* C10, amended: one analyzeClaimEnterprise call creates at most one case; off
\* the fallback path it creates one exactly when requiresInvestigation is true
\* and the risk level the rule engine gave is HIGH or CRITICAL; on the
\* fallback path it creates none.
C10_CaseIffInvestigationAndHighRisk ==
    AfterAnalyze =>
        /\ CasesCreated \in {0, 1}
        /\ last.fellBack => CasesCreated = 0
        /\ ~last.fellBack =>
              (CasesCreated = 1) =
                  (/\ last.assessment.requiresInvestigation
                   /\ last.bre.riskLevel \in {"HIGH", "CRITICAL"})

\* a call that created a case, and the case it created
C10_Witness ==
    /\ AfterAnalyze
    /\ ~last.fellBack
    /\ last.assessment.requiresInvestigation
    /\ CasesCreated = 1
    /\ \E i \in 1..Len(cases) :
          /\ cases[i].caseId = auditTrail[Len(auditTrail)].entityId
          /\ cases[i].relatedClaimIds = <<last.in.claim.claimId>>

\* the risk factors of the assessment that carry this id
FactorsWithId(assessment, id) == Count(FactorIds(assessment), id)

\* C11: when the scoring oracle is out of reach, analyzeClaimEnterprise adds
\* no score and no risk factor for it, and returns the assessment built from
\* the rule engine's result, not the fallback.
C11_OracleFailureAddsNothing ==
    AfterAnalyze /\ ~last.oracleUp /\ ~last.engineThrew =>
        /\ ~last.fellBack
        /\ last.afterAI = last.bre.overallRiskScore
        /\ FactorsWithId(last.assessment, "AI_TEXT_ANALYSIS") = 0

\* C12: the risk level of a non-fallback assessment of analyzeClaimEnterprise
\* is the one its final score gives (CRITICAL from 200, HIGH from 100, MEDIUM
\* from 50, else LOW), the final score being the total after the AI step plus
\* 25 per cross-match; a CROSS_MATCH risk factor of impact 25 x matchCount is
\* appended exactly when matchCount > 0.
C12_FinalLevelFromFinalScore ==
    AfterAnalyze /\ ~last.fellBack =>
        LET a == last.assessment
            n == Len(a.riskFactors)
        IN /\ a.overallRiskScore = last.afterAI + 25 * last.matchCount
           /\ a.riskLevel = LevelOf(a.overallRiskScore, FALSE)
           /\ FactorsWithId(a, "CROSS_MATCH") = (IF last.matchCount > 0 THEN 1 ELSE 0)
           /\ last.matchCount > 0 =>
                 /\ a.riskFactors[n].factorId = "CROSS_MATCH"
                 /\ a.riskFactors[n].impact = 25 * last.matchCount

\* cross-matches that take the level past the one the rule engine gave
C12_Witness ==
    /\ AfterAnalyze
    /\ ~last.fellBack
    /\ last.matchCount > 0
    /\ Rank(last.assessment.riskLevel) > Rank(last.bre.riskLevel)
    /\ last.afterAI = last.bre.overallRiskScore

\* the case of this id (the id is one the store holds)
CaseOf(caseId) == cases[CaseIndex(cases, caseId)]

\* the entries the last call put on the audit trail, and the alerts it raised
TrailAdded == SubSeq(auditTrail, last.before.trail + 1, Len(auditTrail))
AlertsAdded == SubSeq(alerts, last.before.alerts + 1, Len(alerts))

\* C13: every createFraudCase call adds one new case, in status OPEN, under a
\* caseId that no case held before; the case has exactly one note, authored by
\* SYSTEM; the call puts exactly one entry, a CREATE, on the audit trail, and
\* raises one alert when the priority is HIGH or CRITICAL and none otherwise.
C13_CreateAddsOneNewCase ==
    last.op = "createFraudCase" =>
        /\ last.caseId \notin last.before.caseIds
        /\ Len(cases) = Len(last.before.cases) + 1
        /\ CaseOf(last.caseId).status = "OPEN"
        /\ Len(CaseOf(last.caseId).investigationNotes) = 1
        /\ CaseOf(last.caseId).investigationNotes[1].investigatorId = "SYSTEM"
        /\ Len(TrailAdded) = 1
        /\ TrailAdded[1].action = "CREATE"
        /\ TrailAdded[1].entityId = last.caseId
        /\ Len(AlertsAdded) =
              (IF CaseOf(last.caseId).priority \in {"HIGH", "CRITICAL"} THEN 1 ELSE 0)

\* some name of the list contains the word
Mentions(names, word) == \E i \in 1..Len(names) : Includes(names[i], word)

\* the first of the four tests, in the fixed order, that the names meet (5 when
\* they meet none)
FirstTestMet(names) ==
    CHOOSE t \in 1..5 :
        /\ t = 1 => Mentions(names, "Deceased") \/ Mentions(names, "Identity")
        /\ t = 2 => Mentions(names, "Wage") \/ Mentions(names, "Employment")
        /\ t = 3 => Mentions(names, "Employer")
        /\ t = 4 => Mentions(names, "Multiple") \/ Mentions(names, "Pattern")
        /\ t > 1 => ~(Mentions(names, "Deceased") \/ Mentions(names, "Identity"))
        /\ t > 2 => ~(Mentions(names, "Wage") \/ Mentions(names, "Employment"))
        /\ t > 3 => ~Mentions(names, "Employer")
        /\ t > 4 => ~(Mentions(names, "Multiple") \/ Mentions(names, "Pattern"))

TypeOfTest ==
    <<"IDENTITY_THEFT", "WAGE_FALSIFICATION", "EMPLOYER_FRAUD", "ORGANIZED_FRAUD",
      "ELIGIBILITY_FRAUD">>

\* C14: the case createFraudCase stores has the type of the first test, in the
\* order Deceased/Identity, Wage/Employment, Employer, Multiple/Pattern, that
\* some risk-factor name meets, ELIGIBILITY_FRAUD when none is met, and its
\* priority is the risk level of the assessment.
C14_CaseTypeAndPriority ==
    probe.kind = "case" =>
        /\ CaseOf("CASE_A").caseType = TypeOfTest[FirstTestMet(probe.names)]
        /\ CaseOf("CASE_A").priority = probe.riskLevel

\* an Employer name ahead of a Wage name: the Wage test, made first, decides
C14_Witness ==
    /\ probe.kind = "case"
    /\ probe.names = <<"Employer Collusion", "Wage Discrepancy">>
    /\ probe.riskLevel = "HIGH"
    /\ CaseOf("CASE_A").caseType = "WAGE_FALSIFICATION"
    /\ CaseOf("CASE_A").priority = "HIGH"

\* the case of this id as it was when the last call started
CaseBefore(caseId) == last.before.cases[CaseIndex(last.before.cases, caseId)]

\* the notes the last call put in the investigations map under this id
NotesAdded(caseId) ==
    SubSeq(MapGetOrEmpty(investigations, caseId),
           Len(MapGetOrEmpty(last.before.notes, caseId)) + 1,
           Len(MapGetOrEmpty(investigations, caseId)))

\* C15: updateCaseStatus on a case the store holds returns true whatever the
\* current and the target status are, and leaves the case in the target status;
\* the call puts one entry on the audit trail, an UPDATE of that case with the
\* old and the new status, and one note, a DECISION, on the case and in the
\* investigations map; when the target is CLOSED the case gets the time of the
\* call as closureDate and the reason passed as closureReason.
C15_AnyStatusToAnyStatus ==
    last.op = "updateCaseStatus" /\ last.caseId \in last.before.caseIds =>
        /\ last.returned
        /\ CaseOf(last.caseId).status = last.newStatus
        /\ Len(TrailAdded) = 1
        /\ TrailAdded[1].entityId = last.caseId
        /\ TrailAdded[1].action = "UPDATE"
        /\ TrailAdded[1].oldStatus = CaseBefore(last.caseId).status
        /\ TrailAdded[1].newStatus = last.newStatus
        /\ Len(NotesAdded(last.caseId)) = 1
        /\ NotesAdded(last.caseId)[1].noteType = "DECISION"
        /\ CaseOf(last.caseId).investigationNotes =
              Append(CaseBefore(last.caseId).investigationNotes,
                     NotesAdded(last.caseId)[1])
        /\ last.newStatus = "CLOSED" =>
              /\ CaseOf(last.caseId).closureDate = last.now
              /\ CaseOf(last.caseId).closureReason = last.reason

\* a CLOSED case closed a second time, with a reason, at a later time
C15_Witness ==
    /\ last.op = "updateCaseStatus"
    /\ last.caseId \in last.before.caseIds
    /\ CaseBefore(last.caseId).status = "CLOSED"
    /\ CaseBefore(last.caseId).closureReason = "undefined"
    /\ last.newStatus = "CLOSED"
    /\ CaseOf(last.caseId).closureReason = "No fraud found"
    /\ CaseOf(last.caseId).closureDate > CaseBefore(last.caseId).closureDate

\* the evidence list the map holds under this id, now and when the last call
\* started
EvidenceOf(caseId) == MapGetOrEmpty(evidence, caseId)
EvidenceBefore(caseId) == MapGetOrEmpty(last.before.evidence, caseId)

\* the last call, an addEvidence, put one item at the end of the list of its
\* caseId, with a custody chain of one record, and one EVIDENCE note
EvidenceSeeded ==
    last.op = "addEvidence" =>
        /\ Len(EvidenceOf(last.caseId)) = Len(EvidenceBefore(last.caseId)) + 1
        /\ \E item \in {EvidenceOf(last.caseId)[Len(EvidenceOf(last.caseId))]} :
              /\ Len(item.chainOfCustody) = 1
              /\ item.chainOfCustody[1].custodian = last.collectedBy
              /\ item.chainOfCustody[1].transferReason = "Initial collection"
              /\ item.chainOfCustody[1].digitallySigned
        /\ Len(NotesAdded(last.caseId)) = 1
        /\ NotesAdded(last.caseId)[1].noteType = "EVIDENCE"

\* the last call left every evidence item of every list where it was and as it
\* was, custody chain included
EvidenceKept ==
    last.op \in {"createFraudCase", "updateCaseStatus", "addInvestigationNote",
                 "addEvidence"} =>
        \A caseId \in CaseIds : IsPrefix(EvidenceBefore(caseId), EvidenceOf(caseId))

\* C16: an addEvidence call adds one evidence item, whose custody chain is one
\* record (custodian the collector, reason 'Initial collection', digitally
\* signed), and one EVIDENCE note; no case-management operation removes, moves
\* or alters an evidence item added earlier or a record of its custody chain.
C16_EvidenceSeededAndKept == EvidenceSeeded /\ EvidenceKept

\* the sessions stored for the claimant of the last call when the call started
StoredBefore == MapGetOrEmpty(last.profilesBefore, last.claimantId)
StoredNow(claimantId) == MapGetOrEmpty(behavioralProfiles, claimantId)

\* C19: a scoreRiskRealTime call that starts with fewer than 2 sessions stored
\* for its claimant gives a behavioral sub-score of 0.
C19_NoBehavioralScoreBelowTwoSessions ==
    last.op = "scoreRiskRealTime" /\ Len(StoredBefore) < 2 =>
        last.result.behavioralRisk = 0

\* with no session stored when the call starts, the behavioral sub-score is 0
NoBehavioralScoreOnFirstSession ==
    last.op = "scoreRiskRealTime" /\ Len(StoredBefore) < 1 =>
        last.result.behavioralRisk = 0

\* the sessions of the scoring log that are of this claimant, in arrival order
RECURSIVE SessionsOf(_, _)
SessionsOf(log, claimantId) ==
    IF log = <<>> THEN <<>>
    ELSE IF log[1].claimantId = claimantId
    THEN <<log[1].session>> \o SessionsOf(Tail(log), claimantId)
    ELSE SessionsOf(Tail(log), claimantId)

\* the last ones of a list, at most 10 of them
MostRecentTen(sessions) ==
    [i \in 1..Min(Len(sessions), 10) |->
        sessions[Len(sessions) - Min(Len(sessions), 10) + i]]

SessionIds(hist) == [i \in 1..Len(hist) |-> hist[i].session]

\* C20: the history stored for a claimant is at most 10 sessions, the most
\* recent ones scored for that claimant with behavioral metrics, in arrival
\* order; a call leaves the history of every other claimant as it was.
C20_HistoryIsLastTen ==
    /\ \A c \in ScoredClaimants :
          /\ Len(StoredNow(c.claimantId)) <= 10
          /\ SessionIds(StoredNow(c.claimantId)) =
                MostRecentTen(SessionsOf(scoringLog, c.claimantId))
    /\ last.op = "scoreRiskRealTime" =>
          \A c \in ScoredClaimants :
              c.claimantId # last.claimantId =>
                  StoredNow(c.claimantId) =
                      MapGetOrEmpty(last.profilesBefore, c.claimantId)

\* the eleventh session of a claimant has pushed out the first, and a session
\* of another claimant is stored beside them
C20_Witness ==
    /\ Len(SessionsOf(scoringLog, "CLT_1")) = 11
    /\ Len(SessionsOf(scoringLog, "CLT_2")) = 1
    /\ SessionIds(StoredNow("CLT_1"))[1] > 1
    /\ Len(StoredNow("CLT_1")) = 10
    /\ Len(StoredNow("CLT_2")) = 1

\* the positions of the claims whose IP address more than 5 claims of the
\* batch have
SharingAnIP(claims) ==
    {i \in 1..Len(claims) :
        /\ claims[i].ipAddress.t = "str"
        /\ Cardinality({j \in 1..Len(claims) :
                           claims[j].ipAddress = claims[i].ipAddress}) > 5}

SharingAnSSN(claimants) ==
    {i \in 1..Len(claimants) :
        \E j \in 1..Len(claimants) : j # i /\ claimants[j].ssn = claimants[i].ssn}

\* every predicate of the scheme is true on the batch; those of
\* IDENTITY_RING_SCHEME are: more than 5 claims share one IP address, and more
\* than 1 claimant share one SSN
PredicatesHold(scheme, batch) ==
    IF scheme.id = "IDENTITY_RING_SCHEME"
    THEN SharingAnIP(batch.claims) # {} /\ SharingAnSSN(batch.claimants) # {}
    ELSE \A k \in 1..Len(scheme.detectionRules) :
            RuleResult(scheme.detectionRules[k], batch.claims, batch.claimants,
                       BatchTime)

AlertsOf(schemeId) ==
    {k \in 1..Len(last.alerts) : last.alerts[k].schemeId = schemeId}

\* C17: detectEmergingSchemes returns an alert of a scheme of the catalog if
\* and only if every predicate of the scheme is true on the batch; the
\* affectedClaims of an alert of IDENTITY_RING_SCHEME are the ids of the claims
\* whose IP address more than 5 claims of the batch have, and no others.
C17_AlertIffAllPredicates ==
    last.op = "detectEmergingSchemes" =>
        /\ \A i \in 1..Len(last.schemesBefore) :
              AlertsOf(last.schemesBefore[i].id) # {}
                  <=> PredicatesHold(last.schemesBefore[i], last.batch)
        /\ \A k \in AlertsOf("IDENTITY_RING_SCHEME") :
              last.alerts[k].affectedClaims =
                  IdsAt(last.batch.claims, SharingAnIP(last.batch.claims), 1)

\* every claim of the last batch has an ipAddress
EveryClaimHasIP ==
    \A i \in 1..Len(last.batch.claims) : last.batch.claims[i].ipAddress.t = "str"

\* the statement of C17 for batches whose claims all have an ipAddress
AlertIffAllPredicatesGivenIPs ==
    last.op = "detectEmergingSchemes" /\ EveryClaimHasIP => C17_AlertIffAllPredicates

\* six claims from one IP address, alerted as a ring with the six as affected
RingOfSixAlerted ==
    /\ last.op = "detectEmergingSchemes"
    /\ \E k \in AlertsOf("IDENTITY_RING_SCHEME") :
          last.alerts[k].affectedClaims = <<"C1", "C2", "C3", "C4", "C5", "C6">>
    /\ Len(last.batch.claims) = 7

SchemeIds(schemes) == {schemes[i].id : i \in 1..Len(schemes)}
EmergingIds(emerging) == {emerging[i].id : i \in 1..Len(emerging)}

\* the schemes the last call put in the catalog
SchemesAdded == SubSeq(knownSchemes, Len(last.schemesBefore) + 1, Len(knownSchemes))

\* the record has, the run counted, 5 observations or more, and a score over 0.8
DueForPromotion(pattern) ==
    pattern.observations + 1 >= 5 /\ pattern.cluster.suspiciousScore > 800

\* a detection call leaves the catalog with the schemes it had
NoPromotionInDetection ==
    last.op = "detectEmergingSchemes" =>
        /\ Len(knownSchemes) = Len(last.schemesBefore)
        /\ \A i \in 1..Len(knownSchemes) : knownSchemes[i].id = last.schemesBefore[i].id

\* a run of the timer promotes the records that are due, and only those
PromotionWhenDue ==
    last.op = "patternMonitoring" =>
        /\ \A k \in 1..Len(last.emergingBefore) :
              IF DueForPromotion(last.emergingBefore[k])
              THEN /\ \E i \in 1..Len(SchemesAdded) :
                         /\ SchemesAdded[i].id = last.emergingBefore[k].id
                         /\ SchemesAdded[i].detectionRules = <<"always">>
                         /\ SchemesAdded[i].successRate = 500
                   /\ last.emergingBefore[k].id \notin EmergingIds(emergingPatterns)
              ELSE /\ last.emergingBefore[k].id \in EmergingIds(emergingPatterns)
                   /\ last.emergingBefore[k].id \notin SchemeIds(SchemesAdded)
        /\ Len(SchemesAdded) + Len(emergingPatterns) = Len(last.emergingBefore)

NeverEmergingAndKnown ==
    EmergingIds(emergingPatterns) \cap SchemeIds(knownSchemes) = {}

PromotedByFourthRun ==
    /\ last.op = "patternMonitoring"
    /\ Len(SchemesAdded) = 1
    /\ nTicks = 4
    /\ \E k \in 1..Len(last.emergingBefore) :
          /\ last.emergingBefore[k].observations = 4
          /\ last.emergingBefore[k].cluster.suspiciousScore = 900

----------------------------------------------------------------------------
(* The scorer: the final score, the pattern table and the threat set *)

\* the claimant of the last scoring call
ClaimantOfLast == CHOOSE c \in ScoredClaimants : c.claimantId = last.claimantId

\* the four sub-scores of the last scoring call, summed
BaseScoreOfLast ==
    last.result.behavioralRisk
    + detectPatterns(ScorerState, last.context).score
    + detectAnomalies(ScoredClaim, ClaimantOfLast, last.context)
    + applyContinuousLearning(ScorerState, ScoredClaim, ClaimantOfLast, last.context)

\* C21: the overallRiskScore scoreRiskRealTime returns is the sum of the four
\* sub-scores brought into 0..1000 (0 when the sum is negative, 1000 when it
\* is above 1000); requiresInvestigation is true exactly when the score is
\* 100 or more, autoApprovalEligible exactly when it is under 50.
C21_ScoreWithinRange ==
    last.op = "scoreRiskRealTime" =>
        /\ last.result.overallRiskScore \in 0..1000
        /\ last.result.overallRiskScore =
              (IF BaseScoreOfLast < 0 THEN 0
               ELSE IF BaseScoreOfLast > 1000 THEN 1000 ELSE BaseScoreOfLast)
        /\ last.result.requiresInvestigation <=> last.result.overallRiskScore >= 100
        /\ last.result.autoApprovalEligible <=> last.result.overallRiskScore < 50

\* a negative learning adjustment outweighs the other sub-scores, and the
\* score returned is 0
C21_Witness ==
    /\ last.op = "scoreRiskRealTime"
    /\ applyContinuousLearning(ScorerState, ScoredClaim, ClaimantOfLast,
                               last.context) < 0
    /\ BaseScoreOfLast < 0
    /\ last.result.overallRiskScore = 0
    /\ last.result.autoApprovalEligible

\* a custom pattern's weight takes the sum over 1000, and the score returned
\* is 1000
ScoreCappedAtThousand ==
    /\ last.op = "scoreRiskRealTime"
    /\ BaseScoreOfLast > 1000
    /\ last.result.overallRiskScore = 1000

ThreatSet == {emergingThreats[i] : i \in 1..Len(emergingThreats)}

\* every weight of the pattern table is within 10..100
WeightsWithinRange ==
    \A i \in 1..Len(riskPatterns) : riskPatterns[i].weight \in 10..100

\* the weights of the patterns of the constructor are within 10..100
DefaultWeightsWithinRange ==
    \A i \in 1..Len(DefaultRiskPatterns) : riskPatterns[i].weight \in 10..100

\* after a timer run a pattern of frequency over 30 is marked
MarkedWhenOverThirty ==
    last.op = "continuousLearning" =>
        \A i \in 1..Len(riskPatterns) :
            riskPatterns[i].frequency > 30 => riskPatterns[i].emergingThreat

\* after a timer run a pattern of frequency over 30 has its id in the set
InThreatSetWhenOverThirty ==
    last.op = "continuousLearning" =>
        \A i \in 1..Len(riskPatterns) :
            riskPatterns[i].frequency > 30 => riskPatterns[i].id \in ThreatSet

\* no step takes a pattern away, lowers a frequency, withdraws a mark or
\* takes an id out of the threat set
NothingWithdrawn ==
    [][/\ Len(riskPatterns') >= Len(riskPatterns)
       /\ \A i \in 1..Len(riskPatterns) :
             /\ riskPatterns'[i].id = riskPatterns[i].id
             /\ riskPatterns'[i].frequency >= riskPatterns[i].frequency
             /\ riskPatterns[i].emergingThreat => riskPatterns'[i].emergingThreat
       /\ IsPrefix(emergingThreats, emergingThreats')]_vars

\* C22: after any timer runs and addCustomPattern calls every weight is
\* within 10..100, no frequency decreases, a pattern whose frequency is over
\* 30 at a run is marked an emerging threat and has its id in the threat set,
\* and neither the mark nor the membership is withdrawn.
C22_PatternTableInvariants ==
    /\ [](WeightsWithinRange /\ MarkedWhenOverThirty /\ InThreatSetWhenOverThirty)
    /\ NothingWithdrawn

\* a timer run takes SUSPICIOUS_DEVICE_PATTERN, marked from the start, over 30
MarkedPatternOverThirty ==
    /\ last.op = "continuousLearning"
    /\ riskPatterns[2].frequency > 30
    /\ riskPatterns[2].emergingThreat
    /\ riskPatterns[2].id \notin ThreatSet

----------------------------------------------------------------------------
(* The analyzer: the level and the case of the assessment returned *)

\* the returned level is at least the rule engine's
LevelNotLowered ==
    AfterAnalyze /\ ~last.fellBack =>
        Rank(last.assessment.riskLevel) >= Rank(last.bre.riskLevel)

\* a blocked claim is returned as CRITICAL
BlockedIsCritical ==
    AfterAnalyze /\ ~last.fellBack /\ last.shouldBlock =>
        last.assessment.riskLevel = "CRITICAL"

\* C23: off the fallback path the risk level of the assessment that
\* analyzeClaimEnterprise returns is not lower than the one evaluateRules
\* gave in the same call, and is CRITICAL when a BLOCK_CLAIM action fired.
C23_LevelNeverLowered == LevelNotLowered /\ BlockedIsCritical

\* a blocked claim, CRITICAL for the rule engine, returned with a lower level
BlockedReturnedLower ==
    /\ AfterAnalyze
    /\ ~last.fellBack
    /\ last.shouldBlock
    /\ last.bre.riskLevel = "CRITICAL"
    /\ last.assessment.riskLevel # "CRITICAL"

\* without a block the returned level is at least the rule engine's
LevelNotLoweredUnblocked ==
    AfterAnalyze /\ ~last.fellBack /\ ~last.shouldBlock =>
        Rank(last.assessment.riskLevel) >= Rank(last.bre.riskLevel)

\* the case the last analyzeClaimEnterprise call created: the one stored
\* under the id of the CREATE entry the call put on the audit trail
CaseCreated == CaseOf(auditTrail[last.trailBefore + 1].entityId)

CasePriorityIsReturnedLevel ==
    AfterAnalyze /\ CasesCreated = 1 =>
        CaseCreated.priority = last.assessment.riskLevel

CaseScoreIsReturnedScore ==
    AfterAnalyze /\ CasesCreated = 1 =>
        CaseCreated.fraudScore = last.assessment.overallRiskScore

\* C24: the case an analyzeClaimEnterprise call creates has for priority the
\* riskLevel, and for fraudScore the overallRiskScore, of the assessment the
\* call returns.
C24_CaseMatchesAssessment == CasePriorityIsReturnedLevel /\ CaseScoreIsReturnedScore

\* the case has for priority the level the rule engine gave
CasePriorityIsEngineLevel ==
    AfterAnalyze /\ CasesCreated = 1 =>
        CaseCreated.priority = last.bre.riskLevel

\* no block: cross-matches take the score past 200 after the rule engine
\* gave HIGH, and the case is HIGH while the assessment is CRITICAL
HighCaseForCriticalAssessment ==
    /\ AfterAnalyze
    /\ CasesCreated = 1
    /\ ~last.shouldBlock
    /\ CaseCreated.priority = "HIGH"
    /\ last.assessment.riskLevel = "CRITICAL"

\* C25: whatever the rule catalog, the oracle's score and the number of
\* cross-matches, the overallRiskScore analyzeClaimEnterprise returns is
\* within 0..1000.
C25_AnalyzerScoreWithinRange ==
    AfterAnalyze => last.assessment.overallRiskScore \in 0..1000

\* an added rule and the cross-matches take the score over 1000
ScoreOverThousand ==
    /\ AfterAnalyze
    /\ ~last.fellBack
    /\ last.afterAI <= 1000
    /\ last.matchCount > 0
    /\ last.assessment.overallRiskScore > 1000

\* the score is what Step 2 left, itself at most 1000 when there is
\* justification text, plus 25 per cross-match
ScoreAtMostCapPlusMatches ==
    AfterAnalyze /\ ~last.fellBack /\ HasJustificationText(last.in) =>
        last.assessment.overallRiskScore <= 1000 + 25 * last.matchCount

----------------------------------------------------------------------------
(* The case store: unknown ids, closure fields *)

\* the last call named a caseId that the store did not hold
OnUnknownCase ==
    /\ last.op \in {"updateCaseStatus", "addInvestigationNote", "addEvidence"}
    /\ last.caseId \notin last.before.caseIds

\* updateCaseStatus on an unknown id returns false and changes nothing
UnknownUpdateChangesNothing ==
    OnUnknownCase /\ last.op = "updateCaseStatus" =>
        /\ ~last.returned
        /\ cases = last.before.cases
        /\ investigations = last.before.notes
        /\ evidence = last.before.evidence
        /\ Len(auditTrail) = last.before.trail
        /\ Len(alerts) = last.before.alerts

\* addInvestigationNote and addEvidence on an unknown id store nothing
UnknownNoteStoresNothing ==
    OnUnknownCase /\ last.op \in {"addInvestigationNote", "addEvidence"} =>
        /\ investigations = last.before.notes
        /\ evidence = last.before.evidence

\* every id with notes or evidence stored is the id of a case
StoredIdsAreCases ==
    \A id \in DOMAIN investigations \cup DOMAIN evidence :
        CaseIndex(cases, id) # 0

\* C26: operations on a caseId the store does not hold change nothing:
\* updateCaseStatus returns false and adds no note and no audit entry,
\* addInvestigationNote and addEvidence store nothing, and every caseId with
\* notes or evidence stored is the id of an existing case.
C26_UnknownCaseChangesNothing ==
    UnknownUpdateChangesNothing /\ UnknownNoteStoresNothing /\ StoredIdsAreCases

\* addEvidence on an empty store leaves an item and a note under the id
EvidenceWithoutCase ==
    /\ last.op = "addEvidence"
    /\ cases = <<>>
    /\ Len(MapGetOrEmpty(evidence, last.caseId)) = 1
    /\ Len(MapGetOrEmpty(investigations, last.caseId)) = 1

\* on an unknown id the two calls leave the cases as they were
UnknownNoteLeavesCases ==
    OnUnknownCase => cases = last.before.cases /\ Len(auditTrail) = last.before.trail

\* the case has both closure fields set
HasClosure(fraudCase) ==
    fraudCase.closureDate # 0 /\ fraudCase.closureReason # "undefined"

\* C27: after any updateCaseStatus calls a case carries a closureDate and a
\* closureReason if and only if its status is CLOSED.
C27_ClosureFieldsIffClosed ==
    \A i \in 1..Len(cases) : HasClosure(cases[i]) <=> cases[i].status = "CLOSED"

\* a case closed and then moved on keeps the date and reason of its closure
ReopenedKeepsClosure ==
    /\ last.op = "updateCaseStatus"
    /\ last.returned
    /\ last.newStatus # "CLOSED"
    /\ HasClosure(CaseOf(last.caseId))

\* a case closed without a reason is CLOSED with no closureReason
ClosedWithoutReason ==
    /\ last.op = "updateCaseStatus"
    /\ last.returned
    /\ last.newStatus = "CLOSED"
    /\ CaseOf(last.caseId).closureReason = "undefined"

\* a CLOSED case has a closureDate
ClosedHasClosureDate ==
    \A i \in 1..Len(cases) : cases[i].status = "CLOSED" => cases[i].closureDate # 0

\* a case's closure fields are those of its last move to CLOSED
ClosureFieldsFromLastClose ==
    [][\A i \in 1..Len(cases) :
          /\ i <= Len(cases')
          /\ cases'[i].caseId = cases[i].caseId
          /\ last'.op = "updateCaseStatus" /\ last'.newStatus # "CLOSED" =>
                /\ cases'[i].closureDate = cases[i].closureDate
                /\ cases'[i].closureReason = cases[i].closureReason]_vars

----------------------------------------------------------------------------
(* createFraudCase in flight: what the read queries show *)

HasCreationNote(fraudCase) ==
    \E k \in 1..Len(MapGetOrEmpty(investigations, fraudCase.caseId)) :
        investigations[fraudCase.caseId][k].investigatorId = "SYSTEM"

HasCreateEntry(fraudCase) ==
    \E k \in 1..Len(auditTrail) :
        auditTrail[k].action = "CREATE" /\ auditTrail[k].entityId = fraudCase.caseId

HasAlertIfUrgent(fraudCase) ==
    fraudCase.priority \in {"HIGH", "CRITICAL"} =>
        \E k \in 1..Len(alerts) : alerts[k].entityId = fraudCase.caseId

\* C28: at every point where another operation can run between the steps of
\* a createFraudCase call, every case a read query returns has its creation
\* note by SYSTEM and its CREATE audit entry, and its alert when its priority
\* is HIGH or CRITICAL.
C28_VisibleCasesComplete ==
    last.op = "query" =>
        \A i \in 1..Len(last.seen) :
            /\ HasCreationNote(last.seen[i])
            /\ HasCreateEntry(last.seen[i])
            /\ HasAlertIfUrgent(last.seen[i])

\* getHighPriorityCases, run while a call waits on addInvestigationNote,
\* returns the call's case, which has no CREATE entry and no alert yet
SeenBeforeAudit ==
    /\ last.op = "query"
    /\ last.query = "getHighPriorityCases"
    /\ \E i \in 1..Len(last.seen) :
          /\ HasCreationNote(last.seen[i])
          /\ ~HasCreateEntry(last.seen[i])
          /\ ~HasAlertIfUrgent(last.seen[i])
    /\ \E k \in 1..Len(pending) : pending[k].at = "addInvestigationNote"

\* every case a query returns has its creation note
VisibleCasesHaveNote ==
    last.op = "query" =>
        \A i \in 1..Len(last.seen) : HasCreationNote(last.seen[i])

\* with no call in flight every case a query returns is complete
VisibleCasesCompleteWhenIdle ==
    last.op = "query" /\ pending = <<>> =>
        \A i \in 1..Len(last.seen) :
            /\ HasCreationNote(last.seen[i])
            /\ HasCreateEntry(last.seen[i])
            /\ HasAlertIfUrgent(last.seen[i])

\* a case without its CREATE entry is the case of a call waiting on
\* addInvestigationNote
IncompleteOnlyAtNote ==
    \A i \in 1..Len(cases) :
        ~(HasCreateEntry(cases[i]) /\ HasAlertIfUrgent(cases[i])) =>
            \E k \in 1..Len(pending) :
                /\ pending[k].at = "addInvestigationNote"
                /\ pending[k].fraudCase.caseId = cases[i].caseId

----------------------------------------------------------------------------
(* The emerging-pattern map and the caller's arrays *)

\* no two records of the map are of the same cluster
OneRecordPerCluster ==
    \A i, j \in 1..Len(emergingPatterns) :
        emergingPatterns[i].cluster = emergingPatterns[j].cluster => i = j

\* no run of the timer promotes two records of the same cluster
OneSchemePerCluster ==
    last.op = "patternMonitoring" =>
        \A i, j \in 1..Len(last.emergingBefore) :
            /\ DueForPromotion(last.emergingBefore[i])
            /\ DueForPromotion(last.emergingBefore[j])
            /\ last.emergingBefore[i].cluster = last.emergingBefore[j].cluster
            => i = j

\* C29: the emerging-pattern map holds at most one record per suspicious
\* cluster: a second detectEmergingSchemes call on a batch with a cluster
\* already recorded adds no second record, and no second scheme is promoted
\* for the cluster.
C29_OneRecordPerCluster == OneRecordPerCluster /\ OneSchemePerCluster

\* the second call on the same batch leaves two records of one cluster
SecondRecordForCluster ==
    /\ last.op = "detectEmergingSchemes"
    /\ Len(last.emergingBefore) = 1
    /\ Len(emergingPatterns) = 2
    /\ emergingPatterns[1].cluster = emergingPatterns[2].cluster
    /\ emergingPatterns[1].id # emergingPatterns[2].id

\* a run of the timer promotes both records of the cluster
TwoSchemesForCluster ==
    /\ last.op = "patternMonitoring"
    /\ Len(SchemesAdded) = 2
    /\ last.emergingBefore[1].cluster = last.emergingBefore[2].cluster

\* a detection call never counts an observation: the records it finds in the
\* map stay as they are, or give their id to a new record
DetectionCountsNothing ==
    last.op = "detectEmergingSchemes" =>
        \A i \in 1..Len(last.emergingBefore) :
            \/ emergingPatterns[i] = last.emergingBefore[i]
            \/ /\ emergingPatterns[i].id = last.emergingBefore[i].id
               /\ emergingPatterns[i].observations = 1

\* C30: detectEmergingSchemes leaves the caller's claims array with the same
\* elements in the same order as before the call.
C30_InputsUnmodified ==
    last.op = "detectEmergingSchemes" => last.claims = last.batch.claims

\* the call leaves the caller's array in another order than it found it in
CallerArrayReordered ==
    /\ last.op = "detectEmergingSchemes"
    /\ last.claims # last.batch.claims
    /\ Len(last.claims) = Len(last.batch.claims)
    /\ last.claims[1].createdDate < last.batch.claims[1].createdDate

\* the call leaves the caller's array sorted by createdDate, claims of the
\* same date in the order they had
CallerArraySorted ==
    last.op = "detectEmergingSchemes" =>
        /\ last.claims = SortByDate(last.batch.claims)
        /\ \A i \in 1..Len(last.batch.claims) :
              \E j \in 1..Len(last.claims) : last.claims[j] = last.batch.claims[i]

====
